---- MODULE Spec2Model ----
(***************************************************************************)
(* Model of the interval-normalization and aggregation engine of the       *)
(* zorus-timeline viewer: mergeIntervals / calculateTotalDuration          *)
(* (lib/activity-utils.ts) and the components that aggregate or clip       *)
(* activities with them (DailyUserSummary, ActivityTypeBreakdownChart,     *)
(* HourlyTimelineBreakdown, Timeline.drawBars), the two parseActivityCsv   *)
(* parsers with their cell parsers, and the loading and the date           *)
(* navigation of the page (app/page.tsx).                                  *)
(*                                                                         *)
(* Time is a JavaScript Date value: an integer number of milliseconds.     *)
(* A value "in minutes" that the code computes by a floating division is   *)
(* kept exact, as a fraction [num, den].                                   *)
(***************************************************************************)
EXTENDS Integers, Sequences, FiniteSets, TLC

VARIABLES
  pc,           \* position of the driver of the specification in use
  intervals,    \* the caller's array handed to mergeIntervals (sorted in place)
  original,     \* the array as it was before the call
  merged,       \* what mergeIntervals returned
  mergedObjects,\* the Date objects that the returned intervals hold
  total,        \* what calculateTotalDuration returned (a fraction, minutes)
  remerged,     \* what mergeIntervals returned for `merged`
  permuted,     \* a permutation of `original` handed to mergeIntervals
  permMerged,   \* what mergeIntervals returned for `permuted`
  source,       \* the producer of the batch
  activities,   \* the batch of activities of the selected day
  userSummaries,\* DailyUserSummary: the memoised summaries
  typeData,     \* ActivityTypeBreakdownChart: the memoised chart data
  warned,       \* ActivityTypeBreakdownChart: console.warn was called
  zoomLevel,    \* Home: the preset zoom level handed to Timeline
  viewStartMinutes,    \* Timeline: start of the viewport, minutes of the day
  viewDurationMinutes, \* Timeline: width of the viewport, minutes
  viewOps,      \* number of zoom and pan steps taken
  bars,         \* Timeline: the bars drawBars drew, in order
  hourly,       \* HourlyTimelineBreakdown: the segments of each hour bucket
  loads,        \* Home: the loads started, in order, and how far each has got
  page,         \* Home: what the page holds, each field by the load it is from
  csv,          \* parseActivityCsv: the parser called and what Papa.parse read
  parsed,       \* parseActivityCsv: how its promise settled
  cellText,     \* the text of the cell(s) handed to a cell parser
  cellValue,    \* what the cell parser returned
  selectedDate, \* Home: the day shown
  fileDateRange \* Home: the date range of the batch loaded, or null

vars == <<pc, intervals, original, merged, mergedObjects, total, remerged, permuted,
          permMerged, source, activities, userSummaries, typeData, warned,
          zoomLevel, viewStartMinutes, viewDurationMinutes, viewOps, bars, hourly,
          loads, page, csv, parsed, cellText, cellValue, selectedDate,
          fileDateRange>>

mergeVars == <<intervals, original, merged, mergedObjects, total, remerged, permuted,
               permMerged>>
aggVars == <<source, activities, userSummaries, typeData, warned>>
viewVars == <<zoomLevel, viewStartMinutes, viewDurationMinutes, viewOps>>
windowVars == <<zoomLevel, viewStartMinutes, viewDurationMinutes, viewOps, bars, hourly>>
loadVars == <<loads, page>>
parseVars == <<csv, parsed, cellText, cellValue, selectedDate, fileDateRange>>

(***************************************************************************)
(* Bounds of the model                                                     *)
(***************************************************************************)
MaxIntervals == 3   \* longest array handed to mergeIntervals
MaxTick == 3        \* interval endpoints are 0 .. MaxTick half-seconds
MaxRows == 2        \* most records a producer reads into one batch
MaxViewOps == 3     \* most zoom and pan steps taken on the timeline
MaxLoads == 3       \* most loads started on the page

(***************************************************************************)
(* Units (date-fns)                                                        *)
(***************************************************************************)
MsPerSecond == 1000
MsPerMinute == 60000
MsPerHour == 3600000
MsPerDay == 86400000
SecondsPerMinute == 60
HoursPerDay == 24

(***************************************************************************)
(* Generic helpers                                                         *)
(***************************************************************************)
Max2(a, b) == IF a >= b THEN a ELSE b
Min2(a, b) == IF a <= b THEN a ELSE b

\* Truncation toward zero of a / b (b > 0): Math.trunc.
Trunc(a, b) == IF a >= 0 THEN a \div b ELSE -((-a) \div b)

\* date-fns differenceInSeconds(later, earlier): whole seconds, truncated.
DifferenceInSeconds(later, earlier) == Trunc(later - earlier, MsPerSecond)

\* date-fns differenceInMinutes(later, earlier): whole minutes, truncated.
DifferenceInMinutes(later, earlier) == Trunc(later - earlier, MsPerMinute)

Abs(x) == IF x >= 0 THEN x ELSE -x

RECURSIVE GCD(_, _)
GCD(a, b) == IF b = 0 THEN a ELSE GCD(b, a % b)

\* Exact fractions num / den with den > 0, kept in lowest terms.
Frac(n, d) == [num |-> n, den |-> d]
Reduced(f) ==
  LET g == GCD(Abs(f.num), f.den) IN Frac(f.num \div g, f.den \div g)
FracInt(n) == Frac(n, 1)
FracAdd(a, b) ==
  LET g == GCD(a.den, b.den)
  IN Reduced(Frac(a.num * (b.den \div g) + b.num * (a.den \div g),
                  (a.den \div g) * b.den))
FracNeg(a) == Frac(-a.num, a.den)
FracSub(a, b) == FracAdd(a, FracNeg(b))
\* a * p / q for integers p, q > 0, cancelling before multiplying.
FracTimes(a, p, q) ==
  LET g1 == GCD(Abs(a.num), q)
      g2 == GCD(p, a.den)
  IN Reduced(Frac((a.num \div g1) * (p \div g2), (a.den \div g2) * (q \div g1)))

\* The sign of a / b - c / d (b, d > 0), by whole parts and then remainders,
\* so that no product is formed.
RECURSIVE CompareRatios(_, _, _, _)
CompareRatios(a, b, c, d) ==
  LET qa == a \div b
      qc == c \div d
      ra == a % b
      rc == c % d
  IN IF qa # qc THEN (IF qa < qc THEN -1 ELSE 1)
     ELSE IF ra = 0 \/ rc = 0
          THEN (IF ra = rc THEN 0 ELSE IF ra = 0 THEN -1 ELSE 1)
          ELSE CompareRatios(d, rc, b, ra)

FracLeq(a, b) == CompareRatios(a.num, a.den, b.num, b.den) <= 0
FracLt(a, b) == CompareRatios(a.num, a.den, b.num, b.den) < 0
FracEq(a, b) == CompareRatios(a.num, a.den, b.num, b.den) = 0
FracAbs(a) == Frac(Abs(a.num), a.den)
FracMax(a, b) == IF FracLeq(b, a) THEN a ELSE b
FracMin(a, b) == IF FracLeq(a, b) THEN a ELSE b

RECURSIVE SeqSum(_)
SeqSum(s) == IF s = <<>> THEN 0 ELSE Head(s) + SeqSum(Tail(s))

\* All sequences over S of length at most n.
SeqsUpTo(S, n) == UNION {[1..k -> S] : k \in 0..n}

(***************************************************************************)
(* lib/activity-utils.ts: mergeIntervals                                   *)
(***************************************************************************)
Interval(s, e) == [start |-> s, end |-> e]

\* Array.prototype.sort with (a, b) => a.start - b.start: a stable sort, so an
\* element goes after every element already placed whose start is <= its own.
RECURSIVE InsertByStart(_, _)
InsertByStart(sorted, x) ==
  IF sorted = <<>> THEN <<x>>
  ELSE IF Head(sorted).start <= x.start
       THEN <<Head(sorted)>> \o InsertByStart(Tail(sorted), x)
       ELSE <<x>> \o sorted

RECURSIVE SortFrom(_, _, _)
SortFrom(s, i, acc) ==
  IF i > Len(s) THEN acc ELSE SortFrom(s, i + 1, InsertByStart(acc, s[i]))

SortUnsorted(s) == s

SortByStart(s) == SortFrom(s, 1, <<>>)

OverlapsStrictly(nextInterval, currentInterval) ==
  nextInterval.start < currentInterval.end

\* line 35: the next interval overlaps the current one or touches it.
OverlapsOrAdjacent(nextInterval, currentInterval) ==
  nextInterval.start <= currentInterval.end

ExtendAlways(currentInterval, nextInterval) ==
  [currentInterval EXCEPT !.end = nextInterval.end]

\* lines 37-39: the current interval's end moves only forward.
ExtendEnd(currentInterval, nextInterval) ==
  IF nextInterval.end > currentInterval.end
  THEN [currentInterval EXCEPT !.end = nextInterval.end]
  ELSE currentInterval

\* (mutants of the definitions they precede are marked "mutant")
PushLastForgotten(mergedSoFar, currentInterval) == mergedSoFar

\* line 49: the last current interval is pushed after the loop.
PushLast(mergedSoFar, currentInterval) == Append(mergedSoFar, currentInterval)

\* lines 30-46: the loop over intervals[i .. length-1].
RECURSIVE MergeLoop(_, _, _, _)
MergeLoop(sorted, i, currentInterval, mergedSoFar) ==
  IF i > Len(sorted) THEN PushLast(mergedSoFar, currentInterval)
  ELSE IF OverlapsOrAdjacent(sorted[i], currentInterval)
       THEN MergeLoop(sorted, i + 1, ExtendEnd(currentInterval, sorted[i]), mergedSoFar)
       ELSE MergeLoop(sorted, i + 1, sorted[i], Append(mergedSoFar, currentInterval))

\* The value mergeIntervals returns for the array `ivs`.
MergeIntervals(ivs) ==
  IF ivs = <<>> THEN <<>>
  ELSE LET sorted == SortByStart(ivs)
       IN MergeLoop(sorted, 2, sorted[1], <<>>)

\* The Date objects of the call.  The start or end Date of the interval at
\* index i of the caller's array (as sorted by line 24) is an object of the
\* input; structuredClone of that interval makes a new object of each.
InputObject(i, field) == [owner |-> "input", index |-> i, field |-> field]
ClonedObject(i, field) == [owner |-> "clone", index |-> i, field |-> field]

\* structuredClone(intervals[i]): a deep copy, lines 28 and 44.
StructuredClone(i) ==
  [start |-> ClonedObject(i, "start"), end |-> ClonedObject(i, "end")]

\* line 38, currentInterval.end = nextInterval.end: the current interval
\* takes the end Date object of intervals[i] itself.
AssignEnd(currentObjects, i) == [currentObjects EXCEPT !.end = InputObject(i, "end")]

\* lines 30-46 once more, following the objects that the current interval
\* and the intervals pushed hold as start and end.
RECURSIVE MergeLoopObjects(_, _, _, _, _)
MergeLoopObjects(sorted, i, currentInterval, currentObjects, mergedSoFar) ==
  IF i > Len(sorted) THEN Append(mergedSoFar, currentObjects)
  ELSE IF OverlapsOrAdjacent(sorted[i], currentInterval)
       THEN MergeLoopObjects(sorted, i + 1, ExtendEnd(currentInterval, sorted[i]),
                             IF sorted[i].end > currentInterval.end
                             THEN AssignEnd(currentObjects, i)
                             ELSE currentObjects,
                             mergedSoFar)
       ELSE MergeLoopObjects(sorted, i + 1, sorted[i], StructuredClone(i),
                             Append(mergedSoFar, currentObjects))

\* The objects held by the intervals that mergeIntervals returns for `ivs`,
\* interval by interval.
MergeObjects(ivs) ==
  IF ivs = <<>> THEN <<>>
  ELSE LET sorted == SortByStart(ivs)
       IN MergeLoopObjects(sorted, 2, sorted[1], StructuredClone(1), <<>>)

\* The caller's array after the call: sorted in place (line 24), unless empty.
ArrayAfterMerge(ivs) == IF ivs = <<>> THEN ivs ELSE SortByStart(ivs)

(***************************************************************************)
(* lib/activity-utils.ts: calculateTotalDuration                           *)
(***************************************************************************)
\* mutant: seconds rounded up instead of truncated.
DurationSecondsCeil(interval) ==
  Max2(0, (interval.end - interval.start + MsPerSecond - 1) \div MsPerSecond)

\* lines 65-68: one interval's whole seconds, never negative.
DurationSeconds(interval) ==
  Max2(0, DifferenceInSeconds(interval.end, interval.start))

TotalSeconds(ivs) == SeqSum([i \in 1..Len(ivs) |-> DurationSeconds(ivs[i])])

\* line 73: totalSeconds / 60, not rounded.
CalculateTotalDuration(ivs) == Frac(TotalSeconds(ivs), SecondsPerMinute)

(***************************************************************************)
(* Activities and the batches the producers hand to the components         *)
(***************************************************************************)
WebPage == "WebPage"
Application == "Application"
Idle == "Idle"
Other == "Other"

Undefined == "undefined"      \* a field the producer leaves absent
UnknownUser == "Unknown User"

\* The time of day h:m:s.ms of the selected day, as a Date value.
Clock(h, m, s, ms) == ((h * 60 + m) * 60 + s) * MsPerSecond + ms

Activity(type, startTime, endTime, durationMinutes, username) ==
  [type |-> type, startTime |-> startTime, endTime |-> endTime,
   durationMinutes |-> durationMinutes, username |-> username]

\* activities.sort((a, b) => a.startTime.getTime() - b.startTime.getTime()): stable.
RECURSIVE InsertByStartTime(_, _)
InsertByStartTime(sorted, x) ==
  IF sorted = <<>> THEN <<x>>
  ELSE IF Head(sorted).startTime <= x.startTime
       THEN <<Head(sorted)>> \o InsertByStartTime(Tail(sorted), x)
       ELSE <<x>> \o sorted

RECURSIVE SortByStartTime(_)
SortByStartTime(s) ==
  IF s = <<>> THEN <<>>
  ELSE InsertByStartTime(SortByStartTime(SubSeq(s, 1, Len(s) - 1)), s[Len(s)])

\* A row is what a producer has read of one record: its parsed start and end,
\* its mapped type, the parsed value of its duration field (0 when the field
\* is absent, empty or unparseable) and the text of its user column.
Row(type, startTime, endTime, duration, user) ==
  [type |-> type, startTime |-> startTime, endTime |-> endTime,
   duration |-> duration, user |-> user]

\* Timestamp-based parseActivityCsv: the duration is recomputed, a row of
\* negative whole minutes is skipped, a sub-minute row counts one minute.
TimestampRowKept(row) == DifferenceInMinutes(row.endTime, row.startTime) >= 0

\* mutant: the whole minutes as they are, a sub-minute row counts 0.
TimestampDurationTruncated(row) == DifferenceInMinutes(row.endTime, row.startTime)

TimestampDuration(row) ==
  LET d == DifferenceInMinutes(row.endTime, row.startTime)
  IN IF d = 0 /\ row.startTime # row.endTime THEN 1 ELSE d

TimestampActivity(row) ==
  Activity(row.type, row.startTime, row.endTime, TimestampDuration(row),
           IF row.user = "" THEN UnknownUser ELSE row.user)

\* Format-based parseActivityCsv: parseDurationToMinutes(durationStr) ||
\* differenceInMinutes(endTime, startTime); no username.
NamedActivity(row) ==
  Activity(row.type, row.startTime, row.endTime,
           IF row.duration # 0 THEN row.duration
           ELSE DifferenceInMinutes(row.endTime, row.startTime),
           Undefined)

\* getActivities / transformActivity: durationMinutes as delivered; no username.
ApiActivity(row) ==
  Activity(row.type, row.startTime, row.endTime, row.duration, Undefined)

\* The batch a producer makes of the rows it read.
ProduceBatch(src, rows) ==
  CASE src = "timestampCsv" ->
         LET kept == SelectSeq(rows, TimestampRowKept)
         IN SortByStartTime([i \in 1..Len(kept) |-> TimestampActivity(kept[i])])
    [] src = "namedCsv" ->
         SortByStartTime([i \in 1..Len(rows) |-> NamedActivity(rows[i])])
    [] OTHER -> [i \in 1..Len(rows) |-> ApiActivity(rows[i])]

NonIdle(act) == act.type # Idle
IsIdle(act) == act.type = Idle
ToInterval(act) == Interval(act.startTime, act.endTime)
ToIntervals(acts) == [i \in 1..Len(acts) |-> ToInterval(acts[i])]
DurationsOf(acts) == [i \in 1..Len(acts) |-> acts[i].durationMinutes]

(***************************************************************************)
(* components/timeline/daily-user-summary.tsx: DailyUserSummary            *)
(***************************************************************************)
\* line 45: activity.username || "Unknown User"
UserKey(act) ==
  IF act.username = Undefined \/ act.username = "" THEN UnknownUser
  ELSE act.username

\* The keys of userIntervals in insertion order (Object.entries).
RECURSIVE UserKeys(_, _)
UserKeys(acts, seen) ==
  IF acts = <<>> THEN seen
  ELSE LET a == Head(acts)
       IN IF NonIdle(a) /\ ~(\E i \in 1..Len(seen) : seen[i] = UserKey(a))
          THEN UserKeys(Tail(acts), Append(seen, UserKey(a)))
          ELSE UserKeys(Tail(acts), seen)

\* lines 43-64: the intervals pushed for one user, in batch order.
UserIntervals(acts, user) ==
  LET mine(a) == NonIdle(a) /\ UserKey(a) = user
  IN ToIntervals(SelectSeq(acts, mine))

\* mutant: the naive total, the sum of the activities' durationMinutes.
UserTotalNaive(acts, user) ==
  LET mine(a) == NonIdle(a) /\ UserKey(a) = user
  IN Frac(SeqSum(DurationsOf(SelectSeq(acts, mine))), 1)

\* lines 69-70: merge, then total.
UserTotal(acts, user) ==
  CalculateTotalDuration(MergeIntervals(UserIntervals(acts, user)))

\* summaries.sort((a, b) => b.totalActiveMinutes - a.totalActiveMinutes): stable.
RECURSIVE InsertByTotalDesc(_, _)
InsertByTotalDesc(sorted, x) ==
  IF sorted = <<>> THEN <<x>>
  ELSE IF Head(sorted).totalActiveMinutes.num * x.totalActiveMinutes.den
            >= x.totalActiveMinutes.num * Head(sorted).totalActiveMinutes.den
       THEN <<Head(sorted)>> \o InsertByTotalDesc(Tail(sorted), x)
       ELSE <<x>> \o sorted

RECURSIVE SortByTotalDesc(_)
SortByTotalDesc(s) ==
  IF s = <<>> THEN <<>>
  ELSE InsertByTotalDesc(SortByTotalDesc(SubSeq(s, 1, Len(s) - 1)), s[Len(s)])

\* lines 37-82: the memoised userSummaries.
DailyUserSummary(acts) ==
  LET keys == UserKeys(acts, <<>>)
  IN SortByTotalDesc([k \in 1..Len(keys) |->
                        [username |-> keys[k],
                         totalActiveMinutes |-> UserTotal(acts, keys[k])]])

(***************************************************************************)
(* components/charts/ActivityTypeBreakdownChart.tsx                        *)
(***************************************************************************)
\* Math.round of the fraction n / d (d > 0): the nearest integer, halves up.
RoundHalfUp(n, d) == (2 * n + d) \div (2 * d)

\* lines 47-58: the merged total of the non-idle activities, in minutes.
TotalActiveMinutes(acts) ==
  CalculateTotalDuration(MergeIntervals(ToIntervals(SelectSeq(acts, NonIdle))))

\* lines 93-104: the merged total of the idle activities, in minutes.
TotalIdleMinutes(acts) ==
  CalculateTotalDuration(MergeIntervals(ToIntervals(SelectSeq(acts, IsIdle))))

\* The keys of rawTypeDurations in insertion order (Object.entries).
RECURSIVE TypeKeys(_, _)
TypeKeys(acts, seen) ==
  IF acts = <<>> THEN seen
  ELSE LET a == Head(acts)
       IN IF NonIdle(a) /\ ~(\E i \in 1..Len(seen) : seen[i] = a.type)
          THEN TypeKeys(Tail(acts), Append(seen, a.type))
          ELSE TypeKeys(Tail(acts), seen)

\* lines 63-67: the raw durationMinutes summed for one type.
RawTypeDuration(acts, type) ==
  LET ofType(a) == NonIdle(a) /\ a.type = type
  IN SeqSum(DurationsOf(SelectSeq(acts, ofType)))

\* lines 62-67: totalRawDuration.
TotalRawDuration(acts) ==
  SeqSum(DurationsOf(SelectSeq(acts, NonIdle)))

\* lines 74-75: Math.round(rawDuration / totalRawDuration * totalActiveMinutes).
FinalDuration(rawDuration, totalRawDuration, totalActiveMinutes) ==
  RoundHalfUp(rawDuration * totalActiveMinutes.num,
              totalRawDuration * totalActiveMinutes.den)

TypeEntry(name, duration) == [name |-> name, duration |-> duration]

\* lines 71-83: the entries pushed for the non-idle types.
RECURSIVE AllocateTypes(_, _, _)
AllocateTypes(acts, keys, out) ==
  IF keys = <<>> THEN out
  ELSE LET rawDuration == RawTypeDuration(acts, Head(keys))
           finalDuration == FinalDuration(rawDuration, TotalRawDuration(acts),
                                          TotalActiveMinutes(acts))
       IN IF rawDuration > 0 /\ finalDuration > 0
          THEN AllocateTypes(acts, Tail(keys),
                             Append(out, TypeEntry(Head(keys), Frac(finalDuration, 1))))
          ELSE AllocateTypes(acts, Tail(keys), out)

PositiveEntry(entry) == entry.duration.num > 0

\* lines 38-116: the memoised chart data.
ActivityTypeBreakdown(acts) ==
  LET nonIdlePart == IF TotalRawDuration(acts) > 0
                     THEN AllocateTypes(acts, TypeKeys(acts, <<>>), <<>>)
                     ELSE <<>>
      idlePart == IF TotalIdleMinutes(acts).num > 0
                  THEN <<TypeEntry(Idle, TotalIdleMinutes(acts))>>
                  ELSE <<>>
  IN SelectSeq(nonIdlePart \o idlePart, PositiveEntry)

\* lines 84-90: the console warning of the degenerate case.
BreakdownWarns(acts) ==
  ~(TotalRawDuration(acts) > 0) /\ TotalActiveMinutes(acts).num > 0

(***************************************************************************)
(* components/timeline/timeline.tsx: the viewport and drawBars             *)
(***************************************************************************)
ZoomHour == "1h"
ZoomThreeHours == "3h"
ZoomSixHours == "6h"
ZoomTwelveHours == "12h"
ZoomDay == "24h"
ZoomLevels == {ZoomHour, ZoomThreeHours, ZoomSixHours, ZoomTwelveHours, ZoomDay}

MinutesPerDay == 1440
MIN_DURATION_MINUTES == 15
MAX_DURATION_MINUTES == 1440

\* zoomLevelToDuration
ZoomLevelToDuration(level) ==
  CASE level = ZoomHour -> 60
    [] level = ZoomThreeHours -> 180
    [] level = ZoomSixHours -> 360
    [] level = ZoomTwelveHours -> 720
    [] OTHER -> MinutesPerDay

\* A clamp that only keeps the start from going below 0.
ClampViewStartAtZeroOnly(newStart, duration) == FracMax(FracInt(0), newStart)

\* clampViewStart
ClampViewStart(newStart, duration) ==
  LET maxStart == FracMax(FracInt(0), FracSub(FracInt(MinutesPerDay), duration))
  IN FracMax(FracInt(0), FracMin(newStart, maxStart))

\* startOfDay (date-fns), the local day starting at a multiple of 24 hours.
StartOfDay(t) == (t \div MsPerDay) * MsPerDay

\* The page hands the components only activities whose startTime is on the
\* selected date, so startOfDay(currentDate) is the day of any of them.
DayStart(acts) == StartOfDay(acts[1].startTime)

\* filteredActivities with every filter on (the page's initial FilterState):
\* the indices of the activities drawn.
FilteredActivities(acts) ==
  LET activeFilterTypes == {WebPage, Application, Idle, Other}
      shown(i) == acts[i].type \in activeFilterTypes
  IN SelectSeq([i \in 1..Len(acts) |-> i], shown)

ActivityStartMinutes(act, dayStart) == DifferenceInMinutes(act.startTime, dayStart)
ActivityEndMinutes(act, dayStart) == DifferenceInMinutes(act.endTime, dayStart)

\* lines 268-273: the activity is entirely outside the view.
OutsideView(act, dayStart, startMin, viewEndMinutes) ==
  \/ FracLeq(FracInt(ActivityEndMinutes(act, dayStart)), startMin)
  \/ FracLeq(viewEndMinutes, FracInt(ActivityStartMinutes(act, dayStart)))

ClampedStartView(act, dayStart, startMin) ==
  FracMax(startMin, FracInt(ActivityStartMinutes(act, dayStart)))

ClampedEndView(act, dayStart, viewEndMinutes) ==
  FracMin(viewEndMinutes, FracInt(ActivityEndMinutes(act, dayStart)))

\* lines 251-281: the activity gets a bar.
Drawn(act, dayStart, startMin, durationMin) ==
  LET viewEndMinutes == FracAdd(startMin, durationMin)
  IN /\ ~OutsideView(act, dayStart, startMin, viewEndMinutes)
     /\ FracLt(ClampedStartView(act, dayStart, startMin),
               ClampedEndView(act, dayStart, viewEndMinutes))

\* lines 283-285: the bar, its position and width in minutes (the code
\* multiplies both by pixelsPerMinute).
Bar(i, act, dayStart, startMin, durationMin) ==
  LET viewEndMinutes == FracAdd(startMin, durationMin)
      clampedStartView == ClampedStartView(act, dayStart, startMin)
      clampedEndView == ClampedEndView(act, dayStart, viewEndMinutes)
  IN [activity |-> i,
      x |-> FracSub(clampedStartView, startMin),
      width |-> FracSub(clampedEndView, clampedStartView)]

\* drawBars: the bars drawn for the view, in drawing order.
DrawBars(acts, startMin, durationMin) ==
  IF acts = <<>> THEN <<>>
  ELSE LET dayStart == DayStart(acts)
           drawn(i) == Drawn(acts[i], dayStart, startMin, durationMin)
           kept == SelectSeq(FilteredActivities(acts), drawn)
       IN [k \in 1..Len(kept) |->
             Bar(kept[k], acts[kept[k]], dayStart, startMin, durationMin)]

(***************************************************************************)
(* components/timeline/hourly-timeline-breakdown.tsx                       *)
(***************************************************************************)
HourStart(dayDate, hour) == dayDate + hour * MsPerHour
HourEnd(dayDate, hour) == dayDate + (hour + 1) * MsPerHour

\* lines 66-68: the activity overlaps the hour.
InHour(act, hourStart, hourEnd) ==
  act.startTime < hourEnd /\ act.endTime > hourStart

SegmentStartUnclamped(act, hourStart) == act.startTime

\* line 81: max([activity.startTime, hourStart])
SegmentStart(act, hourStart) == Max2(act.startTime, hourStart)

\* line 82: min([activity.endTime, hourEnd])
SegmentEnd(act, hourEnd) == Min2(act.endTime, hourEnd)

StartSecondsInHour(act, hourStart) ==
  DifferenceInSeconds(SegmentStart(act, hourStart), hourStart)

EndSecondsInHour(act, hourStart, hourEnd) ==
  DifferenceInSeconds(SegmentEnd(act, hourEnd), hourStart)

\* lines 92-95
DurationSecondsInHour(act, hourStart, hourEnd) ==
  Max2(0, EndSecondsInHour(act, hourStart, hourEnd) - StartSecondsInHour(act, hourStart))

\* lines 79-120: the segments rendered in one hour bar, in order.
HourSegments(acts, dayDate, hour) ==
  LET hourStart == HourStart(dayDate, hour)
      hourEnd == HourEnd(dayDate, hour)
      rendered(i) == /\ InHour(acts[i], hourStart, hourEnd)
                     /\ DurationSecondsInHour(acts[i], hourStart, hourEnd) > 0
      kept == SelectSeq([i \in 1..Len(acts) |-> i], rendered)
  IN [k \in 1..Len(kept) |->
        [activity |-> kept[k],
         startSecondsInHour |-> StartSecondsInHour(acts[kept[k]], hourStart),
         durationSecondsInHour |->
           DurationSecondsInHour(acts[kept[k]], hourStart, hourEnd)]]

\* The hour bars: element h + 1 holds the segments of hour h; nothing is
\* rendered for an empty batch.
HourlyTimelineBreakdown(acts) ==
  IF acts = <<>> THEN <<>>
  ELSE LET dayDate == StartOfDay(acts[1].startTime)
       IN [n \in 1..HoursPerDay |-> HourSegments(acts, dayDate, n - 1)]

(***************************************************************************)
(* parseActivityCsv, the timestamp-based parser (Start/End UTC Timestamp)  *)
(* and the format-based parser (Start/End Date/Time)                       *)
(***************************************************************************)
Null == "null"          \* findHeader found no column
Unparseable == -1       \* parseTimestampToDate / parseCsvDateTime returned null

\* h.toLowerCase() for the column names that occur.
ToLowerCase(h) ==
  CASE h = "Start UTC Timestamp" -> "start utc timestamp"
    [] h = "End UTC Timestamp" -> "end utc timestamp"
    [] h = "Start Date/Time" -> "start date/time"
    [] h = "StartTime" -> "starttime"
    [] h = "Start Date" -> "start date"
    [] h = "End Date/Time" -> "end date/time"
    [] h = "EndTime" -> "endtime"
    [] h = "End Date" -> "end date"
    [] h = "Activity Type" -> "activity type"
    [] h = "Type" -> "type"
    [] h = "TYPE" -> "type"
    [] h = "Logged In User" -> "logged in user"
    [] h = "Duration" -> "duration"
    [] OTHER -> h

\* Timestamp-based findHeader: the aliases are tried in order, and for each
\* the first header equal to it, case ignored, is taken.
RECURSIVE TimestampFindHeader(_, _)
TimestampFindHeader(headers, possibleNames) ==
  IF possibleNames = <<>> THEN Null
  ELSE LET name == Head(possibleNames)
           matches(h) == ToLowerCase(h) = ToLowerCase(name)
           found == SelectSeq(headers, matches)
       IN IF found # <<>> THEN Head(found)
          ELSE TimestampFindHeader(headers, Tail(possibleNames))

\* Format-based findHeader: the first field of the file that equals any of
\* the aliases, case ignored.
NamedFindHeader(fields, possibleNames) ==
  LET lowerCaseNames == {ToLowerCase(possibleNames[i]) : i \in 1..Len(possibleNames)}
      matches(f) == ToLowerCase(f) \in lowerCaseNames
      found == SelectSeq(fields, matches)
  IN IF found # <<>> THEN Head(found) ELSE Null

StartNames(parser) ==
  IF parser = "timestampCsv" THEN <<"Start UTC Timestamp">>
  ELSE <<"Start Date/Time", "StartTime", "Start Date">>

EndNames(parser) ==
  IF parser = "timestampCsv" THEN <<"End UTC Timestamp">>
  ELSE <<"End Date/Time", "EndTime", "End Date">>

ActivityTypeNames == <<"Activity Type", "Type">>
UserNames == <<"Logged In User">>
DurationNames == <<"Duration">>

\* What a record holds: the value its start and end cells parse to, the
\* text under the "Activity Type" column and under a "Type" column, the
\* minutes its Duration cell parses to, and the text of its user cell.  Every
\* start alias holds `start`, every end alias `end`.
CsvRecord(start, end, type, altType, duration, user) ==
  [start |-> start, end |-> end, type |-> type, altType |-> altType,
   duration |-> duration, user |-> user]

\* row[header]: the cell of the record under a column of the file.
Cell(record, header) ==
  CASE header = Null -> ""
    [] ToLowerCase(header) \in {ToLowerCase(StartNames("timestampCsv")[1]),
                                ToLowerCase(StartNames("namedCsv")[1]),
                                ToLowerCase(StartNames("namedCsv")[2]),
                                ToLowerCase(StartNames("namedCsv")[3])} -> record.start
    [] ToLowerCase(header) \in {ToLowerCase(EndNames("timestampCsv")[1]),
                                ToLowerCase(EndNames("namedCsv")[1]),
                                ToLowerCase(EndNames("namedCsv")[2]),
                                ToLowerCase(EndNames("namedCsv")[3])} -> record.end
    [] header = "Activity Type" -> record.type
    [] ToLowerCase(header) = "type" -> record.altType
    [] header = "Duration" -> record.duration
    [] header = "Logged In User" -> record.user
    [] OTHER -> ""

\* mapExcelActivityType of the timestamp-based parser, on the texts that occur.
TimestampMapType(typeStr) ==
  CASE typeStr = "Webpage" -> WebPage
    [] typeStr = "Application" -> Application
    [] typeStr \in {"Idle", "Machine Lock"} -> Idle
    [] OTHER -> Other

\* mapExcelActivityType of the format-based parser.
NamedMapType(typeStr) ==
  CASE typeStr = "Webpage" -> WebPage
    [] typeStr = "Application" -> Application
    [] typeStr \in {"Idle", "Machine Lock"} -> Idle
    [] OTHER -> Other

Parseable(record) == record.start # Unparseable /\ record.end # Unparseable

\* A promise that resolves with no activities and no date range.
ResolvedEmpty(seen, typeHeader) ==
  [status |-> "resolved", activities |-> <<>>, startDate |-> Unparseable,
   endDate |-> Unparseable, totalEventCount |-> seen, typeHeader |-> typeHeader]

Rejected(seen, typeHeader) ==
  [status |-> "rejected", activities |-> <<>>, startDate |-> Unparseable,
   endDate |-> Unparseable, totalEventCount |-> seen, typeHeader |-> typeHeader]

Resolved(acts, minDate, maxDate, rawEventCount, typeHeader) ==
  [status |-> "resolved", activities |-> SortByStartTime(acts),
   startDate |-> StartOfDay(minDate), endDate |-> StartOfDay(maxDate),
   totalEventCount |-> rawEventCount, typeHeader |-> typeHeader]

\* Math.min / Math.max over the instants of a non-empty set.
MinOf(S) == CHOOSE x \in S : \A y \in S : x <= y
MaxOf(S) == CHOOSE x \in S : \A y \in S : x >= y

\* The timestamp-based parser, lines 97-255.
TimestampParse(fields, data) ==
  LET startTimestampHeader == TimestampFindHeader(fields, StartNames("timestampCsv"))
      endTimestampHeader == TimestampFindHeader(fields, EndNames("timestampCsv"))
      activityTypeHeader == TimestampFindHeader(fields, ActivityTypeNames)
      userHeader == TimestampFindHeader(fields, UserNames)
      row(i) == Row(TimestampMapType(Cell(data[i], activityTypeHeader)),
                    Cell(data[i], startTimestampHeader),
                    Cell(data[i], endTimestampHeader),
                    0, Cell(data[i], userHeader))
      kept(i) == /\ row(i).startTime # Unparseable
                 /\ row(i).endTime # Unparseable
                 /\ TimestampRowKept(row(i))
      keptIndices == SelectSeq([i \in 1..Len(data) |-> i], kept)
      acts == [k \in 1..Len(keptIndices) |-> TimestampActivity(row(keptIndices[k]))]
      minDate == MinOf({acts[k].startTime : k \in 1..Len(acts)})
      maxDate == MaxOf({acts[k].endTime : k \in 1..Len(acts)})
  IN IF data = <<>> THEN Rejected(0, Null)
     ELSE IF startTimestampHeader = Null \/ endTimestampHeader = Null
          THEN Rejected(0, activityTypeHeader)
     ELSE IF activityTypeHeader = Null THEN Rejected(0, activityTypeHeader)
     ELSE IF userHeader = Null THEN Rejected(0, activityTypeHeader)
     ELSE IF acts = <<>> THEN Rejected(Len(data), activityTypeHeader)
     ELSE Resolved(acts, minDate, maxDate, Len(data), activityTypeHeader)

\* The format-based parser, lines 133-290.
NamedParse(fields, data) ==
  LET headerStartTime == NamedFindHeader(fields, StartNames("namedCsv"))
      headerEndTime == NamedFindHeader(fields, EndNames("namedCsv"))
      headerActivityType == NamedFindHeader(fields, ActivityTypeNames)
      headerDuration == NamedFindHeader(fields, DurationNames)
      activityTypeStr(i) == Cell(data[i], headerActivityType)
      durationOf(i) == IF headerDuration = Null THEN 0
                       ELSE Cell(data[i], headerDuration)
      row(i) == Row(NamedMapType(activityTypeStr(i)),
                    Cell(data[i], headerStartTime),
                    Cell(data[i], headerEndTime),
                    durationOf(i), "")
      kept(i) == /\ row(i).startTime # Unparseable
                 /\ row(i).endTime # Unparseable
                 /\ activityTypeStr(i) # ""
      keptIndices == SelectSeq([i \in 1..Len(data) |-> i], kept)
      acts == [k \in 1..Len(keptIndices) |-> NamedActivity(row(keptIndices[k]))]
      minDate == MinOf({acts[k].startTime : k \in 1..Len(acts)})
      maxDate == MaxOf({acts[k].startTime : k \in 1..Len(acts)}
                         \cup {acts[k].endTime : k \in 1..Len(acts)})
  IN IF data = <<>> THEN Rejected(0, Null)
     ELSE IF headerStartTime = Null \/ headerEndTime = Null \/ headerActivityType = Null
          THEN Rejected(0, headerActivityType)
     ELSE IF acts = <<>> THEN Rejected(Len(data), headerActivityType)
     ELSE Resolved(acts, minDate, maxDate, Len(data), headerActivityType)

ParseActivityCsv(input) ==
  IF input.parser = "timestampCsv" THEN TimestampParse(input.fields, input.data)
  ELSE NamedParse(input.fields, input.data)

(***************************************************************************)
(* The cell parsers: parseDurationToMinutes of the format-based parser and *)
(* parseTimestampToDate of the timestamp-based parser.  A text is the      *)
(* sequence of its characters.                                             *)
(***************************************************************************)
DigitChars == <<"0", "1", "2", "3", "4", "5", "6", "7", "8", "9">>

IsDigit(c) == \E d \in 1..10 : DigitChars[d] = c
DigitValue(c) == (CHOOSE d \in 1..10 : DigitChars[d] = c) - 1
IsSpace(c) == c = " "

\* The index after the longest run of digits (\d+) that starts at index i.
RECURSIVE DigitsEnd(_, _)
DigitsEnd(str, i) ==
  IF i <= Len(str) /\ IsDigit(str[i]) THEN DigitsEnd(str, i + 1) ELSE i

\* The index after the longest run of white space (\s*) that starts at i.
RECURSIVE SpacesEnd(_, _)
SpacesEnd(str, i) ==
  IF i <= Len(str) /\ IsSpace(str[i]) THEN SpacesEnd(str, i + 1) ELSE i

\* parseInt(digits, 10) of the digits str[i] .. str[j - 1].
RECURSIVE ParseInt(_, _, _)
ParseInt(str, i, j) ==
  IF j <= i THEN 0 ELSE ParseInt(str, i, j - 1) * 10 + DigitValue(str[j - 1])

\* The flag i of the regular expression: the letter, case ignored.
LowerLetter(c) ==
  CASE c = "H" -> "h" [] c = "M" -> "m" [] c = "S" -> "s" [] OTHER -> c

\* One optional group (?:(\d+)\s*h)? of durationRegex tried at index i: it
\* matches when a run of digits, then white space, then the letter follow;
\* otherwise the group matches nothing and captures nothing.
DurationGroup(str, i, letter) ==
  LET j == DigitsEnd(str, i)
      k == SpacesEnd(str, j)
  IN IF j > i /\ k <= Len(str) /\ LowerLetter(str[k]) = letter
     THEN [captured |-> TRUE, value |-> ParseInt(str, i, j), next |-> k + 1]
     ELSE [captured |-> FALSE, value |-> 0, next |-> i]

\* durationStr.match(durationRegex): every part of the expression is
\* optional, so it matches at index 0 of every string, if only the empty
\* string there; the result is never null.
DurationMatch(durationStr) ==
  LET h == DurationGroup(durationStr, 1, "h")
      m == DurationGroup(durationStr, SpacesEnd(durationStr, h.next), "m")
      s == DurationGroup(durationStr, SpacesEnd(durationStr, m.next), "s")
  IN [isNull |-> FALSE, hours |-> h.value, minutes |-> m.value, seconds |-> s.value]

\* parseDurationToMinutes, lines 51-74.  The else branch (a bare number of
\* seconds) is taken when match is null.
ParseDurationToMinutes(durationStr) ==
  LET match == DurationMatch(durationStr)
      j == DigitsEnd(durationStr, SpacesEnd(durationStr, 1))
      totalSeconds ==
        IF ~match.isNull
        THEN match.hours * 3600 + match.minutes * 60 + match.seconds
        ELSE ParseInt(durationStr, SpacesEnd(durationStr, 1), j)
  IN IF durationStr = <<>> THEN 0 ELSE RoundHalfUp(totalSeconds, 60)

\* A number that parseFloat returns, kept exact: thousands * 1000 + units,
\* with units in 0 .. 999; or NaN.
NaN == [isNaN |-> TRUE, thousands |-> 0, units |-> 0]
Number(thousands, units) == [isNaN |-> FALSE, thousands |-> thousands, units |-> units]

\* The number written by the digits str[i] .. str[j - 1].
RECURSIVE DigitsNumber(_, _, _)
DigitsNumber(str, i, j) ==
  IF j <= i THEN Number(0, 0)
  ELSE LET rest == DigitsNumber(str, i, j - 1)
           u == rest.units * 10 + DigitValue(str[j - 1])
       IN Number(rest.thousands * 10 + u \div 1000, u % 1000)

\* parseFloat(str) on a text of digits, white space and letters other than
\* e: leading white space is skipped, the longest run of digits that follows
\* is the number, and whatever comes after it is ignored; NaN when no digit
\* follows the white space.
ParseFloat(str) ==
  LET i == SpacesEnd(str, 1)
      j == DigitsEnd(str, i)
  IN IF j = i THEN NaN ELSE DigitsNumber(str, i, j)

\* A Date, kept exact: the day it falls on, counted from the epoch, and the
\* milliseconds since that day began.
Date(day, ms) == [day |-> day, ms |-> ms]

\* null where a Date is expected.
NullDate == Date(Unparseable, Unparseable)

\* new Date(value) for value = (kiloSeconds * 1000 + seconds) seconds and ms
\* milliseconds since the epoch.
NewDate(kiloSeconds, seconds, ms) ==
  LET secondsPerDay == MsPerDay \div MsPerSecond
      rest == (kiloSeconds % secondsPerDay) * 1000 + seconds
  IN Date((kiloSeconds \div secondsPerDay) * 1000 + rest \div secondsPerDay,
          (rest % secondsPerDay) * MsPerSecond + ms)

\* timestampNum > 100000000000
AboveMsThreshold(timestampNum) ==
  \/ timestampNum.thousands > 100000000
  \/ timestampNum.thousands = 100000000 /\ timestampNum.units > 0

\* parseTimestampToDate, lines 53-74.  Every Date of the model is valid.
ParseTimestampToDate(timestampStr) ==
  LET timestampNum == ParseFloat(timestampStr)
  IN IF timestampStr = <<>> THEN NullDate
     ELSE IF timestampNum.isNaN THEN NullDate
     ELSE IF AboveMsThreshold(timestampNum)
          THEN NewDate(0, timestampNum.thousands, timestampNum.units)
          ELSE NewDate(timestampNum.thousands, timestampNum.units, 0)

\* differenceInMinutes(later, earlier) of two Dates: the whole minutes
\* between them, truncated toward zero.
DateDifferenceInMinutes(later, earlier) ==
  LET days == later.day - earlier.day
      ms == later.ms - earlier.ms
      negative == days < 0 \/ (days = 0 /\ ms < 0)
      floor == days * MinutesPerDay + ms \div MsPerMinute
  IN IF negative /\ ms % MsPerMinute # 0 THEN floor + 1 ELSE floor

\* The row loop of the timestamp-based parser on the start and end cells of
\* one row, lines 156-190: the row is skipped when a cell gives no Date or
\* the whole minutes are negative; a row shorter than a minute counts one.
TimestampRow(startCell, endCell) ==
  LET startTime == ParseTimestampToDate(startCell)
      endTime == ParseTimestampToDate(endCell)
      minutes == DateDifferenceInMinutes(endTime, startTime)
      durationMinutes == IF minutes = 0 /\ startTime # endTime THEN 1 ELSE minutes
  IN IF startTime = NullDate \/ endTime = NullDate
     THEN [kept |-> FALSE, startTime |-> startTime, endTime |-> endTime,
           durationMinutes |-> 0]
     ELSE IF minutes < 0
     THEN [kept |-> FALSE, startTime |-> startTime, endTime |-> endTime,
           durationMinutes |-> minutes]
     ELSE [kept |-> TRUE, startTime |-> startTime, endTime |-> endTime,
           durationMinutes |-> durationMinutes]

(***************************************************************************)
(* app/page.tsx: loading a file or a URL                                   *)
(***************************************************************************)
\* A field of the page that holds nothing ([] or null); a field that holds
\* something holds the number of the load it came from.
NoLoad == 0

(***************************************************************************)
(* Specification of the merge engine: an array of intervals with           *)
(* end >= start is merged, totalled, merged again, and merged in another   *)
(* order.                                                                  *)
(***************************************************************************)
Ticks == {k * 500 : k \in 0..MaxTick}

ValidIntervals == {iv \in [start : Ticks, end : Ticks] : iv.end >= iv.start}

NoFrac == Frac(0, 1)

IdleAgg ==
  /\ source = "none"
  /\ activities = <<>>
  /\ userSummaries = <<>>
  /\ typeData = <<>>
  /\ warned = FALSE

IdleWindow ==
  /\ zoomLevel = ZoomDay
  /\ viewStartMinutes = FracInt(0)
  /\ viewDurationMinutes = FracInt(ZoomLevelToDuration(ZoomDay))
  /\ viewOps = 0
  /\ bars = <<>>
  /\ hourly = <<>>

\* Home as constructed: nothing loaded, no load started.
EmptyPage ==
  [allParsedActivities |-> NoLoad, fileDateRange |-> NoLoad, csvSummary |-> NoLoad,
   error |-> NoLoad, isLoading |-> FALSE]

IdleLoad ==
  /\ loads = <<>>
  /\ page = EmptyPage

\* parseActivityCsv has not been called.
NotParsed ==
  [status |-> "none", activities |-> <<>>, startDate |-> Unparseable,
   endDate |-> Unparseable, totalEventCount |-> 0, typeHeader |-> Null]

\* No cell parser has been called.
IdleCell ==
  /\ cellText = <<>>
  /\ cellValue = Null

\* startOfDay(new Date()): the day Home is opened on, lines 62-64.
Today == StartOfDay(0)

\* fileDateRange when no batch is loaded.
NoRange == [start |-> Unparseable, end |-> Unparseable]

\* Home has made nothing of a parsed batch yet.
IdleDate ==
  /\ selectedDate = Today
  /\ fileDateRange = NoRange

IdleParse ==
  /\ csv = [parser |-> "none", fields |-> <<>>, data |-> <<>>]
  /\ parsed = NotParsed
  /\ IdleCell
  /\ IdleDate

IdleMerge ==
  /\ intervals = <<>>
  /\ original = <<>>
  /\ merged = <<>>
  /\ mergedObjects = <<>>
  /\ total = NoFrac
  /\ remerged = <<>>
  /\ permuted = <<>>
  /\ permMerged = <<>>

Init ==
  /\ pc = "start"
  /\ IdleLoad
  /\ IdleParse
  /\ intervals \in SeqsUpTo(ValidIntervals, MaxIntervals)
  /\ original = intervals
  /\ merged = <<>>
  /\ mergedObjects = <<>>
  /\ total = NoFrac
  /\ remerged = <<>>
  /\ permuted = <<>>
  /\ permMerged = <<>>
  /\ IdleAgg
  /\ IdleWindow

\* mergeIntervals(intervals)
CallMergeIntervals ==
  /\ pc = "start"
  /\ merged' = MergeIntervals(intervals)
  /\ mergedObjects' = MergeObjects(intervals)
  /\ intervals' = ArrayAfterMerge(intervals)
  /\ pc' = "merged"
  /\ UNCHANGED <<original, total, remerged, permuted, permMerged, aggVars, windowVars, loadVars, parseVars>>

\* calculateTotalDuration(merged)
CallCalculateTotalDuration ==
  /\ pc = "merged"
  /\ total' = CalculateTotalDuration(merged)
  /\ pc' = "totalled"
  /\ UNCHANGED <<intervals, original, merged, mergedObjects, remerged, permuted, permMerged, aggVars, windowVars, loadVars, parseVars>>

\* mergeIntervals(merged): the result is merged once more.
CallMergeAgain ==
  /\ pc = "totalled"
  /\ remerged' = MergeIntervals(merged)
  /\ merged' = ArrayAfterMerge(merged)
  /\ pc' = "remerged"
  /\ UNCHANGED <<intervals, original, mergedObjects, total, permuted, permMerged, aggVars, windowVars, loadVars, parseVars>>

\* mergeIntervals on the original intervals in another order.
CallMergePermuted ==
  /\ pc = "remerged"
  /\ \E p \in Permutations(1..Len(original)) :
       LET arr == [i \in 1..Len(original) |-> original[p[i]]]
       IN /\ permMerged' = MergeIntervals(arr)
          /\ permuted' = arr
  /\ pc' = "permuted"
  /\ UNCHANGED <<intervals, original, merged, mergedObjects, total, remerged, aggVars, windowVars, loadVars, parseVars>>

Next ==
  \/ CallMergeIntervals
  \/ CallCalculateTotalDuration
  \/ CallMergeAgain
  \/ CallMergePermuted

Spec == Init /\ [][Next]_vars

(***************************************************************************)
(* Specification of the daily user summary: a producer loads a batch, the  *)
(* page renders DailyUserSummary for it.                                   *)
(***************************************************************************)
Sources == {"timestampCsv", "namedCsv", "api"}

\* The spans (start, end) of the records read: an hour, a quarter inside it,
\* two spans of a second and a half, an instant, and a record whose end is
\* before its start.
SummarySpans ==
  { <<Clock(9, 0, 0, 0), Clock(10, 0, 0, 0)>>,
    <<Clock(9, 30, 0, 0), Clock(9, 45, 0, 0)>>,
    <<Clock(10, 0, 0, 0), Clock(10, 0, 1, 500)>>,
    <<Clock(10, 0, 2, 0), Clock(10, 0, 3, 500)>>,
    <<Clock(9, 30, 0, 0), Clock(9, 30, 0, 0)>>,
    <<Clock(10, 0, 0, 0), Clock(9, 45, 0, 0)>> }

\* Only the timestamp-based parser reads a user column.
SummaryRows ==
  [ src \in Sources |->
  { Row(t, sp[1], sp[2], 0, u) :
      t \in {WebPage, Application, Idle}, sp \in SummarySpans,
      u \in IF src = "timestampCsv" THEN {"alice", ""} ELSE {""} } ]

NonEmptySeqsUpTo(S, n) == SeqsUpTo(S, n) \ {<<>>}

SummaryInit ==
  /\ pc = "load"
  /\ IdleMerge
  /\ IdleAgg
  /\ IdleWindow
  /\ IdleLoad
  /\ IdleParse

\* A load: the producer's batch replaces the page's; a batch of no activities
\* is an error and nothing is rendered.
Load(rowsOf) ==
  /\ pc = "load"
  /\ \E src \in Sources :
       \E rows \in NonEmptySeqsUpTo(rowsOf[src], MaxRows) :
         LET batch == ProduceBatch(src, rows)
         IN /\ source' = src
            /\ activities' = batch
            /\ pc' = IF batch = <<>> THEN "failed" ELSE "loaded"

LoadSummaryBatch ==
  /\ Load(SummaryRows)
  /\ UNCHANGED <<userSummaries, typeData, warned, mergeVars, loadVars, parseVars, windowVars>>

RenderDailyUserSummary ==
  /\ pc = "loaded"
  /\ userSummaries' = DailyUserSummary(activities)
  /\ pc' = "summarised"
  /\ UNCHANGED <<source, activities, typeData, warned, mergeVars, loadVars, parseVars, windowVars>>

SummaryNext ==
  \/ LoadSummaryBatch
  \/ RenderDailyUserSummary

SummarySpec == SummaryInit /\ [][SummaryNext]_vars

(***************************************************************************)
(* Specification of the activity-type breakdown: a producer loads a batch, *)
(* the page renders ActivityTypeBreakdownChart for it.                     *)
(***************************************************************************)
\* The spans of the records read: an hour, a quarter inside it, half a
\* minute, and a record whose end is a quarter before its start.
BreakdownSpans ==
  { <<Clock(9, 0, 0, 0), Clock(10, 0, 0, 0)>>,
    <<Clock(9, 30, 0, 0), Clock(9, 45, 0, 0)>>,
    <<Clock(9, 0, 0, 0), Clock(9, 0, 30, 0)>>,
    <<Clock(10, 0, 0, 0), Clock(9, 45, 0, 0)>> }

\* Further spans of the records that the timestamp-based parser reads: an
\* instant, and a record whose end is half a minute before its start.
ShortSpans ==
  { <<Clock(9, 30, 0, 0), Clock(9, 30, 0, 0)>>,
    <<Clock(10, 0, 0, 0), Clock(9, 59, 30, 0)>> }

\* The timestamp-based parser reads no duration field; the others read 0
\* (absent or "0") or ten minutes.
BreakdownRows ==
  [ src \in Sources |->
  { Row(t, sp[1], sp[2], d, "") :
      t \in {WebPage, Application, Idle, Other},
      sp \in IF src = "timestampCsv" THEN BreakdownSpans \cup ShortSpans
             ELSE BreakdownSpans,
      d \in IF src = "timestampCsv" THEN {0} ELSE {0, 10} } ]

BreakdownInit ==
  /\ pc = "load"
  /\ IdleMerge
  /\ IdleAgg
  /\ IdleWindow
  /\ IdleLoad
  /\ IdleParse

LoadBreakdownBatch ==
  /\ Load(BreakdownRows)
  /\ UNCHANGED <<userSummaries, typeData, warned, mergeVars, loadVars, parseVars, windowVars>>

RenderActivityTypeBreakdown ==
  /\ pc = "loaded"
  /\ typeData' = ActivityTypeBreakdown(activities)
  /\ warned' = BreakdownWarns(activities)
  /\ pc' = "charted"
  /\ UNCHANGED <<source, activities, userSummaries, mergeVars, loadVars, parseVars, windowVars>>

BreakdownNext ==
  \/ LoadBreakdownBatch
  \/ RenderActivityTypeBreakdown

BreakdownSpec == BreakdownInit /\ [][BreakdownNext]_vars

(***************************************************************************)
(* Specification of the windows: a producer loads a batch, the page        *)
(* renders the timeline and the hourly breakdown, and the user changes the *)
(* preset zoom level and pans; every change redraws the bars.              *)
(***************************************************************************)
\* The spans of the records each producer reads, around the boundaries of
\* the hour buckets and of the viewports reached from the start of the day:
\* whole-second spans in the timestamp CSV, sub-second spans and an instant
\* from the API, and in the named CSV a span that ends before it starts and
\* one that ends on a fraction of a minute.
WindowSpans ==
  [ src \in Sources |->
      CASE src = "timestampCsv" ->
             { <<Clock(0, 0, 0, 0), Clock(0, 6, 0, 0)>>,
               <<Clock(0, 6, 0, 0), Clock(1, 0, 0, 0)>>,
               <<Clock(1, 0, 0, 0), Clock(1, 30, 0, 0)>>,
               <<Clock(0, 10, 10, 0), Clock(0, 10, 50, 0)>>,
               <<Clock(1, 15, 54, 0), Clock(1, 30, 0, 0)>>,
               <<Clock(13, 50, 0, 0), Clock(14, 10, 0, 0)>> }
        [] src = "api" ->
             { <<Clock(0, 30, 0, 200), Clock(0, 30, 0, 800)>>,
               <<Clock(0, 30, 0, 900), Clock(0, 30, 2, 100)>>,
               <<Clock(0, 30, 0, 0), Clock(0, 30, 0, 0)>> }
        [] OTHER ->
             { <<Clock(1, 30, 0, 0), Clock(1, 0, 0, 0)>>,
               <<Clock(0, 0, 0, 0), Clock(0, 6, 54, 0)>> } ]

WindowRows ==
  [ src \in Sources |->
      { Row(WebPage, sp[1], sp[2], 0, "") : sp \in WindowSpans[src] } ]

\* Where the pointer is on the canvas, as a fraction of its width.
PointerPositions == {Frac(0, 1), Frac(1, 2)}

WindowInit ==
  /\ pc = "load"
  /\ IdleMerge
  /\ IdleAgg
  /\ IdleWindow
  /\ IdleLoad
  /\ IdleParse

\* The batch arrives; Timeline and HourlyTimelineBreakdown render it.
LoadWindowBatch ==
  /\ Load(WindowRows)
  /\ bars' = DrawBars(activities', viewStartMinutes, viewDurationMinutes)
  /\ hourly' = HourlyTimelineBreakdown(activities')
  /\ UNCHANGED <<userSummaries, typeData, warned, mergeVars, loadVars, parseVars, viewVars>>

\* handleZoomChange and the effect on [zoomLevel] (lines 160-165), then the
\* drawing effect.
ChangeZoom ==
  /\ pc = "loaded"
  /\ viewOps < MaxViewOps
  /\ \E level \in ZoomLevels \ {zoomLevel} :
       LET newDuration == FracInt(ZoomLevelToDuration(level))
           newStart == ClampViewStart(viewStartMinutes, newDuration)
       IN /\ zoomLevel' = level
          /\ viewDurationMinutes' = newDuration
          /\ viewStartMinutes' = newStart
          /\ bars' = DrawBars(activities, newStart, newDuration)
  /\ viewOps' = viewOps + 1
  /\ UNCHANGED <<pc, hourly, aggVars, mergeVars, loadVars, parseVars>>

\* handleWheelZoom with Shift held and the pointer at a fraction of the
\* canvas width, then the drawing effect; zoomFactor is 1.15 = 23 / 20.
WheelZoom ==
  /\ pc = "loaded"
  /\ viewOps < MaxViewOps
  /\ \E zoomOut \in BOOLEAN, pointer \in PointerPositions :
       LET currentDuration == viewDurationMinutes
           scaled == IF zoomOut THEN FracTimes(currentDuration, 23, 20)
                               ELSE FracTimes(currentDuration, 20, 23)
           nextDuration == FracMax(FracInt(MIN_DURATION_MINUTES),
                                   FracMin(FracInt(MAX_DURATION_MINUTES), scaled))
           timeAtMousePointer ==
             FracAdd(viewStartMinutes,
                     FracTimes(currentDuration, pointer.num, pointer.den))
           newViewStart ==
             ClampViewStart(
               FracSub(timeAtMousePointer,
                       FracTimes(nextDuration, pointer.num, pointer.den)),
               nextDuration)
       IN IF FracLt(FracInt(1), FracAbs(FracSub(nextDuration, currentDuration)))
          THEN /\ viewStartMinutes' = newViewStart
               /\ viewDurationMinutes' = nextDuration
               /\ bars' = DrawBars(activities, newViewStart, nextDuration)
          ELSE UNCHANGED <<viewStartMinutes, viewDurationMinutes, bars>>
  /\ viewOps' = viewOps + 1
  /\ UNCHANGED <<pc, zoomLevel, hourly, aggVars, mergeVars, loadVars, parseVars>>

\* handlePan, then the drawing effect; the pan buttons are rendered only
\* while the view is narrower than the day.
Pan ==
  /\ pc = "loaded"
  /\ viewOps < MaxViewOps
  /\ FracLt(viewDurationMinutes, FracInt(MAX_DURATION_MINUTES))
  /\ \E direction \in {"left", "right"} :
       LET panAmount == FracTimes(viewDurationMinutes, 1, 10)
           change == IF direction = "left"
                     THEN FracSub(FracInt(0), panAmount) ELSE panAmount
           newStart == ClampViewStart(FracAdd(viewStartMinutes, change),
                                      viewDurationMinutes)
       IN /\ viewStartMinutes' = newStart
          /\ bars' = DrawBars(activities, newStart, viewDurationMinutes)
  /\ viewOps' = viewOps + 1
  /\ UNCHANGED <<pc, zoomLevel, viewDurationMinutes, hourly, aggVars, mergeVars, loadVars, parseVars>>

WindowNext ==
  \/ LoadWindowBatch
  \/ ChangeZoom
  \/ WheelZoom
  \/ Pan

WindowSpec == WindowInit /\ [][WindowNext]_vars

(***************************************************************************)
(* Specification of the viewport: as above, and also started from the      *)
(* timeline zoomed in as far as it goes.  That state is reached from a     *)
(* loaded batch by the 1h preset and ten Shift+wheel steps inwards with    *)
(* the pointer at the left edge: 60 / 1.15^9 is 17.06 minutes, the tenth   *)
(* step gives 14.83, which is clamped to MIN_DURATION_MINUTES, and the     *)
(* start stays at 0.                                                       *)
(***************************************************************************)
ZoomedInInit ==
  /\ pc = "loaded"
  /\ IdleMerge
  /\ IdleLoad
  /\ IdleParse
  /\ userSummaries = <<>>
  /\ typeData = <<>>
  /\ warned = FALSE
  /\ \E src \in Sources :
       \E row \in WindowRows[src] :
         LET batch == ProduceBatch(src, <<row>>)
         IN /\ batch # <<>>
            /\ source = src
            /\ activities = batch
            /\ bars = DrawBars(batch, FracInt(0), FracInt(MIN_DURATION_MINUTES))
            /\ hourly = HourlyTimelineBreakdown(batch)
  /\ zoomLevel = ZoomHour
  /\ viewStartMinutes = FracInt(0)
  /\ viewDurationMinutes = FracInt(MIN_DURATION_MINUTES)
  /\ viewOps = 0

ViewportInit == WindowInit \/ ZoomedInInit

ViewportSpec == ViewportInit /\ [][WindowNext]_vars

(***************************************************************************)
(* Specification of the loads: the user picks files and loads URLs; each   *)
(* load reads its text in the background and hands it to processCsvData    *)
(* when it has it.  The controls that start a load are disabled while      *)
(* isLoading is set.                                                       *)
(***************************************************************************)
LoadInit ==
  /\ pc = "page"
  /\ IdleMerge
  /\ IdleAgg
  /\ IdleWindow
  /\ IdleLoad
  /\ IdleParse

\* The load started last.
LatestLoad == Len(loads)

\* The loads that have got as far as `stage`.
LoadsAt(stage) == {k \in 1..Len(loads) : loads[k].stage = stage}

SetStage(k, stage) == [loads EXCEPT ![k].stage = stage]

\* setAllParsedActivities([]), setFileDateRange(null), setCsvSummary(null)
Cleared(pg) ==
  [pg EXCEPT !.allParsedActivities = NoLoad, !.fileDateRange = NoLoad,
             !.csvSummary = NoLoad]

\* processCsvData(csvString, sourceName) for load k, with the callbacks of
\* the promise of parseActivityCsv, which parses the string before any other
\* event is handled: it resolves (then, finally) or rejects (catch, finally).
ProcessCsvData(pg, k, resolves) ==
  IF resolves
  THEN [allParsedActivities |-> k, fileDateRange |-> k, csvSummary |-> k,
        error |-> NoLoad, isLoading |-> FALSE]
  ELSE [Cleared(pg) EXCEPT !.error = k, !.isLoading = FALSE]

\* The condition under which Home renders <Timeline>, lines 419-422, on a
\* selected day that has activities of the batch.
TimelineRendered(pg) ==
  ~pg.isLoading /\ pg.error = NoLoad /\ pg.allParsedActivities # NoLoad

\* handleFileLoad up to `await file.text()`: nothing on the page changes.
HandleFileLoad ==
  /\ ~page.isLoading
  /\ Len(loads) < MaxLoads
  /\ loads' = Append(loads, [kind |-> "file", stage |-> "reading"])
  /\ UNCHANGED <<pc, page, mergeVars, aggVars, windowVars, parseVars>>

\* handleLoadFromUrl up to `await fetch(urlToLoad)`, from the Load button or
\* from the effect on the url query parameter.
HandleLoadFromUrl ==
  /\ ~page.isLoading
  /\ Len(loads) < MaxLoads
  /\ loads' = Append(loads, [kind |-> "url", stage |-> "fetching"])
  /\ page' = [Cleared(page) EXCEPT !.isLoading = TRUE, !.error = NoLoad]
  /\ UNCHANGED <<pc, mergeVars, aggVars, windowVars, parseVars>>

\* fetch settles: with a response that is ok the load goes on to
\* `await response.text()`; otherwise the catch block reports the error.
FetchSettles ==
  /\ \E k \in LoadsAt("fetching") :
       \E ok \in BOOLEAN :
         IF ok
         THEN /\ loads' = SetStage(k, "reading")
              /\ UNCHANGED page
         ELSE /\ loads' = SetStage(k, "done")
              /\ page' = [page EXCEPT !.error = k, !.isLoading = FALSE]
  /\ UNCHANGED <<pc, mergeVars, aggVars, windowVars, parseVars>>

\* file.text() or response.text() resolves and the load calls processCsvData.
TextArrives ==
  /\ \E k \in LoadsAt("reading") :
       \E resolves \in BOOLEAN :
         /\ loads' = SetStage(k, "done")
         /\ page' = ProcessCsvData(page, k, resolves)
  /\ UNCHANGED <<pc, mergeVars, aggVars, windowVars, parseVars>>

\* handleUnloadCsv
HandleUnloadCsv ==
  /\ ~page.isLoading
  /\ page.csvSummary # NoLoad
  /\ page' = EmptyPage
  /\ UNCHANGED <<pc, loads, mergeVars, aggVars, windowVars, parseVars>>

LoadNext ==
  \/ HandleFileLoad
  \/ HandleLoadFromUrl
  \/ FetchSettles
  \/ TextArrives
  \/ HandleUnloadCsv

LoadSpec == LoadInit /\ [][LoadNext]_vars

\* Load k gets on: its fetch settles or its text arrives.
GetsOn(k) ==
  /\ FetchSettles \/ TextArrives
  /\ k \in 1..Len(loads)
  /\ loads'[k].stage # loads[k].stage

\* The loads when every promise of fetch, of text() and of parseActivityCsv
\* settles.
LoadFairSpec == LoadSpec /\ \A k \in 1..MaxLoads : WF_vars(GetsOn(k))

(***************************************************************************)
(* Specification of the parsers: Papa.parse has read the header row and    *)
(* the records of a file, and parseActivityCsv settles its promise.        *)
(***************************************************************************)
\* The header rows read: every mandatory column, one of them missing, the
\* user column missing, and two aliases of the type column in either order.
HeaderRows ==
  [ parser \in {"timestampCsv", "namedCsv"} |->
      LET start == StartNames(parser)[1]
          end == EndNames(parser)[1]
      IN { <<start, end, "Activity Type", "Logged In User">>,
           <<end, start, "TYPE", "Logged In User">>,
           <<start, end, "Activity Type", "Type", "Logged In User">>,
           <<start, end, "Type", "Activity Type", "Logged In User">>,
           <<start, end, "Activity Type">>,
           <<start, end, "Activity Type", "Duration">>,
           <<end, "Activity Type", "Logged In User">>,
           <<start, "Activity Type", "Logged In User">>,
           <<start, end, "Logged In User">> } ]

\* The records read: spans of an hour and of half an hour, a span of half a
\* minute, an instant, a record that ends half a minute and one that ends a
\* quarter of an hour before it starts, records whose start or end cannot be
\* parsed, and a record with an empty type cell.
CsvRecords ==
  { CsvRecord(Clock(9, 0, 0, 0), Clock(10, 0, 0, 0), "Webpage", "Idle", 0, "alice"),
    CsvRecord(Clock(8, 0, 0, 0), Clock(8, 30, 0, 0), "Application", "Idle", 30, ""),
    CsvRecord(Clock(9, 0, 0, 0), Clock(9, 0, 30, 0), "Webpage", "Idle", 0, "alice"),
    CsvRecord(Clock(9, 30, 0, 0), Clock(9, 30, 0, 0), "Machine Lock", "Webpage", 0, "alice"),
    CsvRecord(Clock(10, 0, 0, 0), Clock(9, 59, 30, 0), "Webpage", "Idle", 0, "alice"),
    CsvRecord(Clock(10, 0, 0, 0), Clock(9, 45, 0, 0), "Webpage", "Idle", 0, "alice"),
    CsvRecord(Unparseable, Clock(10, 0, 0, 0), "Webpage", "Idle", 0, "alice"),
    CsvRecord(Clock(9, 0, 0, 0), Unparseable, "Webpage", "Idle", 0, "alice"),
    CsvRecord(Clock(9, 0, 0, 0), Clock(10, 0, 0, 0), "", "Idle", 0, "alice") }

CsvInputs ==
  UNION { { [parser |-> p, fields |-> f, data |-> d] :
              f \in HeaderRows[p], d \in SeqsUpTo(CsvRecords, MaxRows) } :
          p \in {"timestampCsv", "namedCsv"} }

ParserInit ==
  /\ pc = "parse"
  /\ IdleMerge
  /\ IdleAgg
  /\ IdleWindow
  /\ IdleLoad
  /\ parsed = NotParsed
  /\ IdleCell
  /\ IdleDate
  /\ csv \in CsvInputs

\* parseActivityCsv(csvString): the promise resolves or rejects.
CallParseActivityCsv ==
  /\ pc = "parse"
  /\ parsed' = ParseActivityCsv(csv)
  /\ pc' = "parsed"
  /\ UNCHANGED <<csv, cellText, cellValue, selectedDate, fileDateRange, mergeVars, aggVars,
                 windowVars, loadVars>>

ParserNext == CallParseActivityCsv

ParserSpec == ParserInit /\ [][ParserNext]_vars

(***************************************************************************)
(* Specification of the selected date: processCsvData parses a file, Home  *)
(* takes the date range and the selected date from the result, and the     *)
(* user steps to the previous and to the next day.                         *)
(***************************************************************************)
\* The records read: spans within the days 0, 1 and 2, a span over the
\* midnight between the days 0 and 1, a record that ends twenty seconds
\* before it starts over that midnight, and a record that cannot be parsed.
DatedRecords ==
  { CsvRecord(Clock(9, 0, 0, 0), Clock(10, 0, 0, 0), "Webpage", "", 0, "alice"),
    CsvRecord(MsPerDay + Clock(9, 0, 0, 0), MsPerDay + Clock(10, 0, 0, 0),
              "Webpage", "", 0, "alice"),
    CsvRecord(2 * MsPerDay + Clock(9, 0, 0, 0), 2 * MsPerDay + Clock(10, 0, 0, 0),
              "Application", "", 0, "alice"),
    CsvRecord(Clock(23, 30, 0, 0), MsPerDay + Clock(0, 30, 0, 0),
              "Application", "", 0, "alice"),
    CsvRecord(MsPerDay + Clock(0, 0, 10, 0), Clock(23, 59, 50, 0),
              "Webpage", "", 0, "alice"),
    CsvRecord(Unparseable, Clock(10, 0, 0, 0), "Webpage", "", 0, "alice") }

DatedInputs ==
  { [parser |-> p, fields |-> <<StartNames(p)[1], EndNames(p)[1], "Activity Type",
                               "Logged In User">>,
     data |-> d] :
      p \in {"timestampCsv", "namedCsv"}, d \in SeqsUpTo(DatedRecords, MaxRows) }

DateInit ==
  /\ pc = "parse"
  /\ IdleMerge
  /\ IdleAgg
  /\ IdleWindow
  /\ IdleLoad
  /\ parsed = NotParsed
  /\ IdleCell
  /\ IdleDate
  /\ csv \in DatedInputs

\* processCsvData, lines 88-114: the callbacks of the promise of
\* parseActivityCsv.  then: the date range is that of the result and the
\* selected date is startOfDay(parsedResult.endDate); catch: no date range.
PromiseSettled ==
  /\ pc = "parsed"
  /\ IF parsed.status = "resolved"
     THEN /\ fileDateRange' = [start |-> parsed.startDate, end |-> parsed.endDate]
          /\ selectedDate' = StartOfDay(parsed.endDate)
          /\ pc' = "shown"
     ELSE /\ fileDateRange' = NoRange
          /\ selectedDate' = selectedDate
          /\ pc' = "failed"
  /\ UNCHANGED <<csv, parsed, cellText, cellValue, mergeVars, aggVars, windowVars, loadVars>>

\* subDays(date, 1) and addDays(date, 1)
SubDay(date) == date - MsPerDay
AddDay(date) == date + MsPerDay

\* handlePreviousDay, lines 269-276
HandlePreviousDay ==
  /\ pc = "shown"
  /\ LET prevDay == SubDay(selectedDate)
     IN IF fileDateRange # NoRange /\ prevDay < fileDateRange.start
        THEN selectedDate' = selectedDate
        ELSE selectedDate' = prevDay
  /\ UNCHANGED <<pc, csv, parsed, cellText, cellValue, fileDateRange, mergeVars, aggVars,
                 windowVars, loadVars>>

\* handleNextDay, lines 278-285
HandleNextDay ==
  /\ pc = "shown"
  /\ LET nextDay == AddDay(selectedDate)
     IN IF fileDateRange # NoRange /\ nextDay > fileDateRange.end
        THEN selectedDate' = selectedDate
        ELSE selectedDate' = nextDay
  /\ UNCHANGED <<pc, csv, parsed, cellText, cellValue, fileDateRange, mergeVars, aggVars,
                 windowVars, loadVars>>

DateNext ==
  \/ CallParseActivityCsv
  \/ PromiseSettled
  \/ HandlePreviousDay
  \/ HandleNextDay

DateSpec == DateInit /\ [][DateNext]_vars

(***************************************************************************)
(* Specification of the cell parsers: a duration cell is handed to         *)
(* parseDurationToMinutes, or the start and end cells of a row are read by *)
(* the row loop of the timestamp-based parser.                             *)
(***************************************************************************)
\* The decimal digits of n >= 0, and of u in 0 .. 999 written in three digits.
RECURSIVE Digits(_)
Digits(n) ==
  IF n < 10 THEN <<DigitChars[n + 1]>>
  ELSE Digits(n \div 10) \o <<DigitChars[(n % 10) + 1]>>

ThreeDigits(u) ==
  <<DigitChars[(u \div 100) + 1], DigitChars[((u \div 10) % 10) + 1],
    DigitChars[(u % 10) + 1]>>

\* The text of the number thousands * 1000 + units.
NumberText(thousands, units) ==
  IF thousands = 0 THEN Digits(units) ELSE Digits(thousands) \o ThreeDigits(units)

Absent == -1

\* One component of a duration text: the digits and the letter, or nothing.
ComponentText(n, letter) == IF n = Absent THEN <<>> ELSE Digits(n) \o <<letter>>

\* The components that are present, in the order hours, minutes, seconds,
\* with sep between two of them: "1h 2m 30s" is DurationText(1, 2, 30, " ").
DurationText(h, m, s, sep) ==
  LET hm == IF h # Absent /\ (m # Absent \/ s # Absent) THEN sep ELSE <<>>
      ms == IF m # Absent /\ s # Absent THEN sep ELSE <<>>
  IN ComponentText(h, "h") \o hm \o ComponentText(m, "m") \o ms \o ComponentText(s, "s")

ComponentHours == {Absent, 0, 1}
ComponentMinutes == {Absent, 2, 45}
ComponentSeconds == {Absent, 29, 30, 90}
Separators == {<<>>, <<" ">>}

\* The seconds a present or absent component stands for.
SecondsOf(n, secondsPerUnit) == IF n = Absent THEN 0 ELSE n * secondsPerUnit

ComponentTexts ==
  { DurationText(h, m, s, sep) :
      h \in ComponentHours, m \in ComponentMinutes, s \in ComponentSeconds,
      sep \in Separators } \ {<<>>}

\* Bare numbers of seconds.
BareSeconds == {0, 29, 30, 90, 150, 3600}
BareIntegerTexts == {Digits(n) : n \in BareSeconds}

\* Texts of neither form: the empty cell, words, and a component with a
\* letter before it or after it.
OtherTexts ==
  { <<>>, <<"x">>, <<"m">>, <<"x", "5", "m">>, <<"5", "m", "x">>, <<"5", "x">>,
    <<"1", "H", " ", "x">> }

DurationCells == ComponentTexts \cup BareIntegerTexts \cup OtherTexts

\* Numbers of a timestamp cell, as <<thousands, units>>: 0 and 12, the
\* seconds 1700000000, 1700000030 and 1700000900, the threshold 10^11 and
\* the number after it, and the milliseconds 1700000000000, 1700000000500
\* and 1700000900000.
TimestampNumbers ==
  { <<0, 0>>, <<0, 12>>, <<1700000, 0>>, <<1700000, 30>>, <<1700000, 900>>,
    <<100000000, 0>>, <<100000000, 1>>, <<1700000000, 0>>, <<1700000000, 500>>,
    <<1700000900, 0>> }

\* The cells read: a number, alone, after white space, before a letter or
\* after a letter; a word; an empty cell; the date 2023-11-14.
TimestampCells ==
  UNION { { NumberText(n[1], n[2]), <<" ">> \o NumberText(n[1], n[2]),
            NumberText(n[1], n[2]) \o <<"x">>, <<"x">> \o NumberText(n[1], n[2]) } :
          n \in TimestampNumbers }
    \cup { <<"x">>, <<>>, <<"2", "0", "2", "3", "-", "1", "1", "-", "1", "4">> }

CellInit ==
  /\ IdleMerge
  /\ IdleAgg
  /\ IdleWindow
  /\ IdleLoad
  /\ csv = [parser |-> "none", fields |-> <<>>, data |-> <<>>]
  /\ parsed = NotParsed
  /\ cellValue = Null
  /\ IdleDate
  /\ \/ pc = "duration" /\ \E durationStr \in DurationCells : cellText = <<durationStr>>
     \/ pc = "timestamps" /\ \E startCell \in TimestampCells, endCell \in TimestampCells :
                               cellText = <<startCell, endCell>>

\* parseDurationToMinutes(durationStr)
CallParseDurationToMinutes ==
  /\ pc = "duration"
  /\ cellValue' = ParseDurationToMinutes(cellText[1])
  /\ pc' = "minutes"
  /\ UNCHANGED <<cellText, csv, parsed, selectedDate, fileDateRange, mergeVars, aggVars,
                 windowVars, loadVars>>

\* One pass of the row loop of the timestamp-based parseActivityCsv.
ReadTimestampRow ==
  /\ pc = "timestamps"
  /\ cellValue' = TimestampRow(cellText[1], cellText[2])
  /\ pc' = "row"
  /\ UNCHANGED <<cellText, csv, parsed, selectedDate, fileDateRange, mergeVars, aggVars,
                 windowVars, loadVars>>

CellNext == CallParseDurationToMinutes \/ ReadTimestampRow

CellSpec == CellInit /\ [][CellNext]_vars

(***************************************************************************)
(* Properties of the merge engine                                          *)
(***************************************************************************)
Merged == pc \in {"merged", "totalled", "remerged", "permuted"}
Totalled == pc \in {"totalled", "remerged", "permuted"}

Touch(a, b) == a.end = b.start \/ b.end = a.start
OverlapOrTouch(a, b) == a.start <= b.end /\ b.start <= a.end
PositiveOverlap(a, b) == Min2(a.end, b.end) > Max2(a.start, b.start)

\* Instants at which coverage is compared: every tick and every point half
\* way between two ticks.
Instants == {k * 250 : k \in 0..(2 * MaxTick)}
Covers(ivs, t) == \E i \in 1..Len(ivs) : ivs[i].start <= t /\ t <= ivs[i].end

\* The sum of the lengths (end - start) of the intervals, in minutes.
RawSum(ivs) ==
  Frac(SeqSum([i \in 1..Len(ivs) |-> ivs[i].end - ivs[i].start]), MsPerMinute)

\* C1: the intervals mergeIntervals returns are in ascending start order and
\* each ends strictly before the next starts (none overlap, none touch).
C1_Separated ==
  Merged => \A i \in 1..(Len(merged) - 1) :
              /\ merged[i].start < merged[i + 1].start
              /\ merged[i].end < merged[i + 1].start

\* C1 witness: two inputs of positive length, one ending exactly where the
\* other starts, have come back as a single interval.
C1_Witness ==
  /\ pc = "merged"
  /\ Len(original) = 2
  /\ original[1].start < original[1].end
  /\ original[2].start < original[2].end
  /\ original[2].end = original[1].start
  /\ Len(merged) = 1

\* C2: the returned intervals cover exactly the instants the input covers.
C2_SameCoverage ==
  Merged => \A t \in Instants : Covers(merged, t) <=> Covers(original, t)

\* C2 witness: an input strictly nested inside another was absorbed and the
\* result is the outer interval alone.
C2_Witness ==
  /\ pc = "merged"
  /\ \E i, j \in 1..Len(original) :
       /\ original[i].start < original[j].start
       /\ original[j].end < original[i].end
       /\ i > j
       /\ merged = <<original[i]>>

\* C4 as stated: the merged total is at most the sum of the individual
\* lengths, with equality exactly when no two inputs overlap or touch.
C4_AsStated ==
  Totalled =>
    /\ FracLeq(total, RawSum(original))
    /\ FracEq(total, RawSum(original)) <=>
         \A i, j \in 1..Len(original) :
           i # j => ~OverlapOrTouch(original[i], original[j])

\* C4 amended: the merged total is at most the sum of the individual lengths,
\* with equality exactly when no two inputs share a span of positive length
\* and every returned interval is a whole number of seconds long.
C4_Conservation ==
  Totalled =>
    /\ FracLeq(total, RawSum(original))
    /\ FracEq(total, RawSum(original)) <=>
         /\ \A i, j \in 1..Len(original) :
              i # j => ~PositiveOverlap(original[i], original[j])
         /\ \A k \in 1..Len(merged) :
              (merged[k].end - merged[k].start) % MsPerSecond = 0

\* C4 witness: two inputs of positive length that touch were merged and the
\* total equals the sum of their lengths.
C4_Witness ==
  /\ pc = "totalled"
  /\ Len(original) = 2
  /\ original[1].start < original[1].end
  /\ original[1].end = original[2].start
  /\ original[2].start < original[2].end
  /\ Len(merged) = 1
  /\ FracEq(total, RawSum(original))
  /\ total.num > 0

\* C5: merging the result of mergeIntervals again returns the same intervals.
C5_Idempotent ==
  pc \in {"remerged", "permuted"} => remerged = merged

\* C5 witness: a three-interval input that merged into two intervals has been
\* merged again.
C5_Witness ==
  /\ pc = "remerged"
  /\ Len(original) = 3
  /\ Len(merged) = 2
  /\ Len(remerged) = 2

\* C6: every permutation of the input gives the same returned intervals.
C6_OrderIndependent ==
  pc = "permuted" => permMerged = merged

\* C6 witness: an input with two different intervals of equal start has been
\* merged in two different orders.
C6_Witness ==
  /\ pc = "permuted"
  /\ permuted # original
  /\ \E i, j \in 1..Len(original) :
       /\ original[i].start = original[j].start
       /\ original[i].end # original[j].end
  /\ Len(merged) >= 2

(***************************************************************************)
(* Properties of the daily user summary                                    *)
(***************************************************************************)
\* The union of a set of intervals, measured without merging: its maximal
\* spans [a, b], found by looking at every endpoint and every point half way
\* between two endpoints (coordinates doubled to keep them integers).
ProperIntervals(I) == {iv \in I : iv.start <= iv.end}
Points2(I) ==
  LET ends == {iv.start : iv \in I} \cup {iv.end : iv \in I}
  IN {x + y : x \in ends, y \in ends}
Covered2(I, u) == \E iv \in I : 2 * iv.start <= u /\ u <= 2 * iv.end
SolidSpan(I, a, b) ==
  \A u \in Points2(I) : (2 * a <= u /\ u <= 2 * b) => Covered2(I, u)
MaximalSpans(I) ==
  LET P == ProperIntervals(I)
  IN { sp \in {iv.start : iv \in P} \X {iv.end : iv \in P} :
         /\ sp[1] <= sp[2]
         /\ SolidSpan(P, sp[1], sp[2])
         /\ ~(\E iv \in P : iv.start < sp[1] /\ sp[1] <= iv.end)
         /\ ~(\E iv \in P : iv.start <= sp[2] /\ sp[2] < iv.end) }

RECURSIVE WholeSecondsOf(_)
WholeSecondsOf(spans) ==
  IF spans = {} THEN 0
  ELSE LET sp == CHOOSE x \in spans : TRUE
       IN ((sp[2] - sp[1]) \div MsPerSecond) + WholeSecondsOf(spans \ {sp})

\* The length of the union in whole seconds (each maximal span's).
UnionSeconds(I) == WholeSecondsOf(MaximalSpans(I))

ActiveIntervalsOf(user) ==
  { Interval(activities[i].startTime, activities[i].endTime) :
      i \in { j \in 1..Len(activities) :
                activities[j].type # Idle /\ UserKey(activities[j]) = user } }

ActiveUsers ==
  { UserKey(activities[i]) :
      i \in { j \in 1..Len(activities) : activities[j].type # Idle } }

NaiveMinutesOf(user) ==
  SeqSum([i \in 1..Len(activities) |->
            IF activities[i].type # Idle /\ UserKey(activities[i]) = user
            THEN activities[i].durationMinutes ELSE 0])

\* C3: DailyUserSummary reports, for every user with non-idle activity and
\* for no one else, the length of the union of that user's non-idle
\* intervals, in whole seconds divided by 60.
C3_UnionLength ==
  pc = "summarised" =>
    /\ {userSummaries[k].username : k \in 1..Len(userSummaries)} = ActiveUsers
    /\ Len(userSummaries) = Cardinality(ActiveUsers)
    /\ \A k \in 1..Len(userSummaries) :
         FracEq(userSummaries[k].totalActiveMinutes,
                Frac(UnionSeconds(ActiveIntervalsOf(userSummaries[k].username)),
                     SecondsPerMinute))

\* C3 witness: a 09:00-10:00 WebPage activity and a 09:30-09:45 Application
\* activity of one user, whose durationMinutes sum to 75, are reported as 60
\* minutes.
C3_Witness ==
  /\ pc = "summarised"
  /\ activities =
       << Activity(WebPage, Clock(9, 0, 0, 0), Clock(10, 0, 0, 0), 60, "alice"),
          Activity(Application, Clock(9, 30, 0, 0), Clock(9, 45, 0, 0), 15, "alice") >>
  /\ NaiveMinutesOf("alice") = 75
  /\ Len(userSummaries) = 1
  /\ userSummaries[1].username = "alice"
  /\ FracEq(userSummaries[1].totalActiveMinutes, Frac(60, 1))

(***************************************************************************)
(* Properties of the activity-type breakdown                               *)
(***************************************************************************)
NonIdleTypes == {WebPage, Application, Other}

NonIdleIntervals ==
  { Interval(activities[i].startTime, activities[i].endTime) :
      i \in { j \in 1..Len(activities) : activities[j].type # Idle } }

NonIdleRawSum ==
  SeqSum([i \in 1..Len(activities) |->
            IF activities[i].type # Idle THEN activities[i].durationMinutes ELSE 0])

\* The minutes allocated to the non-idle types in the chart data.
AllocatedSum ==
  SeqSum([k \in 1..Len(typeData) |->
            IF typeData[k].name # Idle THEN typeData[k].duration.num ELSE 0])

\* | allocated - merged total | <= n minutes, the merged total in seconds.
AllocationWithin(n) ==
  Abs(AllocatedSum * SecondsPerMinute - UnionSeconds(NonIdleIntervals))
    <= n * SecondsPerMinute

\* C7: whenever the raw durationMinutes of the non-idle activities sum to
\* more than 0, the minutes allocated to the non-idle types differ from the
\* merged total of those activities by at most the number of non-idle types.
C7_AllocationConserved ==
  (pc = "charted" /\ NonIdleRawSum > 0) =>
    AllocationWithin(Cardinality(NonIdleTypes))

\* The same for batches in which no durationMinutes is negative (no record
\* with its end before its start was kept).
AllocationConservedForNonNegative ==
  (/\ pc = "charted"
   /\ NonIdleRawSum > 0
   /\ \A i \in 1..Len(activities) : activities[i].durationMinutes >= 0) =>
    AllocationWithin(Cardinality({activities[i].type : i \in 1..Len(activities)}
                                 \ {Idle}))

\* C8: when the raw durationMinutes of the non-idle activities sum to 0 and
\* their merged total is greater than 0, the breakdown signals the case and
\* its result still holds the merged time.
C8_DegenerateKept ==
  (pc = "charted" /\ NonIdleRawSum = 0 /\ UnionSeconds(NonIdleIntervals) > 0) =>
    /\ warned
    /\ AllocatedSum * SecondsPerMinute = UnionSeconds(NonIdleIntervals)


\* C30: for a batch of the timestamp-based parseActivityCsv the degenerate
\* case cannot occur in the breakdown: whenever the merged total of the
\* non-idle activities is greater than 0, their raw durationMinutes sum to
\* more than 0.
C30_TimestampNeverDegenerate ==
  (/\ pc \in {"loaded", "charted"}
   /\ source = "timestampCsv"
   /\ FracLt(FracInt(0), TotalActiveMinutes(activities))) =>
    /\ NonIdleRawSum > 0
    /\ TotalRawDuration(activities) > 0

\* The chart is rendered for a batch of the timestamp-based parser whose
\* non-idle activities have a merged total above 0 and are all shorter than
\* a minute.
C30_Witness ==
  /\ pc = "charted"
  /\ source = "timestampCsv"
  /\ FracLt(FracInt(0), TotalActiveMinutes(activities))
  /\ ~warned
  /\ \A i \in 1..Len(activities) :
       activities[i].type # Idle =>
         DifferenceInMinutes(activities[i].endTime, activities[i].startTime) = 0


(***************************************************************************)
(* Properties of the windows: the timeline viewport and the hour buckets   *)
(***************************************************************************)
\* How many of the segments drawn in one window belong to activity i.
SegmentCount(segs, i) == Cardinality({k \in 1..Len(segs) : segs[k].activity = i})

\* The overlap of activity i with the viewport, max(activity start, window
\* start) to min(activity end, window end), has positive length; instants
\* are exact minutes of the day.
ViewportOverlapPositive(i) ==
  LET dayStart == DayStart(activities)
      actStart == Frac(activities[i].startTime - dayStart, MsPerMinute)
      actEnd == Frac(activities[i].endTime - dayStart, MsPerMinute)
      windowStart == viewStartMinutes
      windowEnd == FracAdd(viewStartMinutes, viewDurationMinutes)
  IN FracLt(FracMax(actStart, windowStart), FracMin(actEnd, windowEnd))

\* The overlap of activity i with hour bucket h has positive length.
HourOverlapPositive(i, h) ==
  LET dayDate == DayStart(activities)
  IN Max2(activities[i].startTime, HourStart(dayDate, h))
       < Min2(activities[i].endTime, HourEnd(dayDate, h))

Hours == 0..(HoursPerDay - 1)

\* No activity has more than one segment in the viewport or in an hour bucket.
AtMostOneSegment ==
  pc = "loaded" =>
    \A i \in 1..Len(activities) :
      /\ SegmentCount(bars, i) <= 1
      /\ \A h \in Hours : SegmentCount(hourly[h + 1], i) <= 1

\* An activity with a segment in an hour bucket overlaps that hour for a
\* positive length.
SegmentOnlyWhereOverlap ==
  pc = "loaded" =>
    \A i \in 1..Len(activities) :
      \A h \in Hours :
        SegmentCount(hourly[h + 1], i) = 1 => HourOverlapPositive(i, h)

\* C9: in the timeline viewport and in every hour bucket, an activity has
\* exactly one segment when its overlap with the window, max(activity start,
\* window start) to min(activity end, window end), has positive length, and
\* no segment otherwise; never more than one.
C9_ExactlyOneSegment ==
  pc = "loaded" =>
    \A i \in 1..Len(activities) :
      /\ SegmentCount(bars, i) = (IF ViewportOverlapPositive(i) THEN 1 ELSE 0)
      /\ \A h \in Hours :
           SegmentCount(hourly[h + 1], i)
             = (IF HourOverlapPositive(i, h) THEN 1 ELSE 0)

\* The two halves of C9, apart: the viewport alone and the hour buckets alone.
ViewportExactlyOne ==
  pc = "loaded" =>
    \A i \in 1..Len(activities) :
      SegmentCount(bars, i) = (IF ViewportOverlapPositive(i) THEN 1 ELSE 0)

HourlyExactlyOne ==
  pc = "loaded" =>
    \A i \in 1..Len(activities) :
      \A h \in Hours :
        SegmentCount(hourly[h + 1], i)
          = (IF HourOverlapPositive(i, h) THEN 1 ELSE 0)

\* With both ends of every activity on whole seconds, the hour buckets alone
\* do as C9 says.
WholeSecondActivities ==
  \A i \in 1..Len(activities) :
    /\ activities[i].startTime % MsPerSecond = 0
    /\ activities[i].endTime % MsPerSecond = 0

HourlyExactlyOneOnWholeSeconds ==
  (pc = "loaded" /\ WholeSecondActivities) =>
    \A i \in 1..Len(activities) :
      \A h \in Hours :
        SegmentCount(hourly[h + 1], i)
          = (IF HourOverlapPositive(i, h) THEN 1 ELSE 0)

TenToTwo == Clock(13, 50, 0, 0)
TenPastTwo == Clock(14, 10, 0, 0)

\* The activity of the example: 13:50 to 14:10.
SpansTenToTenPast(i) ==
  /\ activities[i].startTime = DayStart(activities) + TenToTwo
  /\ activities[i].endTime = DayStart(activities) + TenPastTwo

\* Hour 14 holds a segment of activity i at offset 0, ten minutes long.
TenMinutesInHourFourteen(i) ==
  \E k \in 1..Len(hourly[15]) :
    /\ hourly[15][k].activity = i
    /\ hourly[15][k].startSecondsInHour = 0
    /\ hourly[15][k].durationSecondsInHour = 10 * SecondsPerMinute

\* C10: every segment of the hourly breakdown starts at offset
\* max(activity start, hour start) - hour start and has length
\* min(activity end, hour end) - max(activity start, hour start), to the
\* second: the offset is the whole seconds of the exact offset, the length is
\* within a second of the exact length, and both are exact when the activity
\* starts and ends on whole seconds; an activity spanning 13:50-14:10 has in
\* hour 14 a segment at offset 0 of exactly 10 minutes.
C10_HourlySegmentExact ==
  pc = "loaded" =>
    /\ \A h \in Hours :
         \A k \in 1..Len(hourly[h + 1]) :
           LET seg == hourly[h + 1][k]
               act == activities[seg.activity]
               hourStart == HourStart(DayStart(activities), h)
               hourEnd == HourEnd(DayStart(activities), h)
               from == Max2(act.startTime, hourStart)
               to == Min2(act.endTime, hourEnd)
               offset == from - hourStart
               length == to - from
           IN /\ seg.startSecondsInHour * MsPerSecond <= offset
              /\ offset < (seg.startSecondsInHour + 1) * MsPerSecond
              /\ Abs(seg.durationSecondsInHour * MsPerSecond - length) < MsPerSecond
              /\ (act.startTime % MsPerSecond = 0 /\ act.endTime % MsPerSecond = 0)
                   => /\ seg.startSecondsInHour * MsPerSecond = offset
                      /\ seg.durationSecondsInHour * MsPerSecond = length
    /\ \A i \in 1..Len(activities) :
         SpansTenToTenPast(i) => TenMinutesInHourFourteen(i)

\* C10 witness: a batch with an activity spanning 13:50-14:10 is rendered and
\* hour 14 holds its segment at offset 0, ten minutes long.
C10_Witness ==
  /\ pc = "loaded"
  /\ \E i \in 1..Len(activities) :
       SpansTenToTenPast(i) /\ TenMinutesInHourFourteen(i)


(***************************************************************************)
(* Activities that touch a window at one of its ends                       *)
(***************************************************************************)
\* Activity i ends at the instant the viewport starts, or starts at the
\* instant the viewport ends.
TouchesViewport(i) ==
  LET dayStart == DayStart(activities)
      actStart == Frac(activities[i].startTime - dayStart, MsPerMinute)
      actEnd == Frac(activities[i].endTime - dayStart, MsPerMinute)
      windowStart == viewStartMinutes
      windowEnd == FracAdd(viewStartMinutes, viewDurationMinutes)
  IN FracEq(actEnd, windowStart) \/ FracEq(actStart, windowEnd)

\* Activity i ends at the start of hour h, or starts at its end.
TouchesHour(i, h) ==
  LET dayDate == DayStart(activities)
  IN \/ activities[i].endTime = HourStart(dayDate, h)
     \/ activities[i].startTime = HourEnd(dayDate, h)

\* The viewport starts and ends on whole minutes.
WholeMinuteViewport ==
  /\ viewStartMinutes.den = 1
  /\ viewDurationMinutes.den = 1

\* C11: an activity whose endTime equals the start of a window (the timeline
\* viewport or an hour bucket), or whose startTime equals the end of the
\* window, has no segment in that window.
C11_TouchingNoSegment ==
  pc = "loaded" =>
    \A i \in 1..Len(activities) :
      /\ TouchesViewport(i) => SegmentCount(bars, i) = 0
      /\ \A h \in Hours : TouchesHour(i, h) => SegmentCount(hourly[h + 1], i) = 0

\* The hour buckets alone do as C11 says.
HourlyTouchingNoSegment ==
  pc = "loaded" =>
    \A i \in 1..Len(activities) :
      \A h \in Hours : TouchesHour(i, h) => SegmentCount(hourly[h + 1], i) = 0

\* So does a viewport that starts and ends on whole minutes.
WholeMinuteViewportTouchingNoSegment ==
  (pc = "loaded" /\ WholeMinuteViewport) =>
    \A i \in 1..Len(activities) :
      TouchesViewport(i) => SegmentCount(bars, i) = 0

\* An activity touches an hour bucket and the viewport in a rendered batch.
TouchingReached ==
  /\ pc = "loaded"
  /\ \E i \in 1..Len(activities) :
       /\ TouchesViewport(i)
       /\ \E h \in Hours : TouchesHour(i, h)


(***************************************************************************)
(* Properties of the viewport                                              *)
(***************************************************************************)
\* C12: after any sequence of preset zoom changes, Shift+wheel zoom steps
\* and pan steps, the viewport is between 15 and 1440 minutes wide and
\* starts between minute 0 and minute 1440 minus its width.
C12_ViewportWithinDay ==
  /\ FracLeq(FracInt(15), viewDurationMinutes)
  /\ FracLeq(viewDurationMinutes, FracInt(1440))
  /\ FracLeq(FracInt(0), viewStartMinutes)
  /\ FracLeq(viewStartMinutes, FracSub(FracInt(1440), viewDurationMinutes))

\* C12 witness: zoom and pan steps were taken and left the viewport at its
\* narrowest, 15 minutes, away from the start of the day.
C12_Witness ==
  /\ pc = "loaded"
  /\ viewOps > 1
  /\ FracEq(viewDurationMinutes, FracInt(15))
  /\ FracLt(FracInt(0), viewStartMinutes)

\* A wheel step left the viewport on a width that is no preset.
WheelZoomedViewport ==
  /\ pc = "loaded"
  /\ viewOps > 1
  /\ viewDurationMinutes.den > 1
  /\ FracLt(FracInt(0), viewStartMinutes)


\* The seconds of the segments of activity i in hour bucket h.
SegmentSeconds(i, h) ==
  LET segs == hourly[h + 1]
  IN SeqSum([k \in 1..Len(segs) |->
               IF segs[k].activity = i THEN segs[k].durationSecondsInHour ELSE 0])

\* Activity i starts and ends at whole seconds of the day of the breakdown.
WholeSecondsWithinDay(i) ==
  /\ activities[i].startTime % MsPerSecond = 0
  /\ activities[i].endTime % MsPerSecond = 0
  /\ StartOfDay(activities[i].startTime) = DayStart(activities)
  /\ StartOfDay(activities[i].endTime) = DayStart(activities)

\* The segments of activity i add up to end - start, and a segment of an
\* earlier hour ends before a segment of a later hour starts.
SegmentsTileActivity(i) ==
  /\ SeqSum([n \in 1..HoursPerDay |-> SegmentSeconds(i, n - 1)]) * MsPerSecond
       = activities[i].endTime - activities[i].startTime
  /\ \A h1 \in Hours, h2 \in Hours :
       h1 < h2 =>
         \A k1 \in 1..Len(hourly[h1 + 1]), k2 \in 1..Len(hourly[h2 + 1]) :
           (hourly[h1 + 1][k1].activity = i /\ hourly[h2 + 1][k2].activity = i) =>
             h1 * MsPerHour
               + (hourly[h1 + 1][k1].startSecondsInHour
                    + hourly[h1 + 1][k1].durationSecondsInHour) * MsPerSecond
               <= h2 * MsPerHour + hourly[h2 + 1][k2].startSecondsInHour * MsPerSecond

\* C29: for an activity that starts and ends within one calendar day at
\* whole seconds, the lengths of its segments over the 24 hour buckets add up
\* to exactly end - start, and its segments in different hours do not
\* overlap in time.
C29_HourlySegmentsSum ==
  pc = "loaded" =>
    \A i \in 1..Len(activities) :
      WholeSecondsWithinDay(i) => SegmentsTileActivity(i)

\* The same for the activities that do not end before they start.
HourlySegmentsSumWhenOrdered ==
  pc = "loaded" =>
    \A i \in 1..Len(activities) :
      (WholeSecondsWithinDay(i) /\ activities[i].endTime >= activities[i].startTime)
        => SegmentsTileActivity(i)

\* An activity over two hour buckets is in the batch.
SpansTwoHoursReached ==
  /\ pc = "loaded"
  /\ \E i \in 1..Len(activities) :
       /\ WholeSecondsWithinDay(i)
       /\ SegmentSeconds(i, 13) > 0
       /\ SegmentSeconds(i, 14) > 0


(***************************************************************************)
(* Properties of the loads                                                 *)
(***************************************************************************)
\* Load k settles in this step: its result, or its failure, has arrived.
Settles(k) ==
  /\ k \in 1..Len(loads)
  /\ loads[k].stage # "done"
  /\ loads'[k].stage = "done"

\* C13: when a load was started while an earlier load was in flight, the
\* result of the earlier load is discarded when it arrives: the activities,
\* date range, summary and error of the page are left as they are, so that
\* they come from the most recently started load.
C13_StaleResultDiscarded ==
  [][\A k \in 1..Len(loads) :
       (Settles(k) /\ k < LatestLoad) => page' = page]_vars

\* The result of the most recently started load does reach the page.
LatestResultShown ==
  [][\A k \in 1..Len(loads) :
       (Settles(k) /\ k = LatestLoad) =>
          \/ page'.allParsedActivities = k /\ page'.csvSummary = k
          \/ page'.error = k]_vars


\* Load k fails in this step: the fetch fails, or parseActivityCsv rejects.
Fails(k) == Settles(k) /\ page'.allParsedActivities # k

\* C23: after a load fails, the page holds no activities, no date range and
\* no summary, holds the error of the load, and does not render the timeline.
C23_FailedLoadShowsNothing ==
  [][\A k \in 1..Len(loads) :
       Fails(k) =>
         /\ page'.allParsedActivities = NoLoad
         /\ page'.fileDateRange = NoLoad
         /\ page'.csvSummary = NoLoad
         /\ page'.error = k
         /\ ~TimelineRendered(page')]_vars

\* After a load fails the page holds its error, shows nothing of the failed
\* batch and does not render the timeline.
FailedBatchNotShown ==
  [][\A k \in 1..Len(loads) :
       Fails(k) =>
         /\ page'.error = k
         /\ page'.fileDateRange # k
         /\ page'.csvSummary # k
         /\ ~TimelineRendered(page')]_vars


\* Load k is in flight: started, and its result not yet applied to the page.
InFlight(k) == k \in 1..Len(loads) /\ loads[k].stage # "done"

\* C26: whenever a load started by a file or by a URL is in flight,
\* isLoading is true (the load and unload controls are disabled), also while
\* the text of a file is read and when two loads overlap.
C26_LoadingWhileInFlight ==
  \A k \in 1..Len(loads) : InFlight(k) => page.isLoading

\* isLoading is true while the one load started, a load from a URL, is in
\* flight.
UrlLoadAloneIsLoading ==
  (Len(loads) = 1 /\ loads[1].kind = "url" /\ InFlight(1)) => page.isLoading

\* The page shows a batch: activities, date range and summary, and no error.
ShowsBatch(pg) ==
  /\ pg.allParsedActivities # NoLoad
  /\ pg.fileDateRange # NoLoad
  /\ pg.csvSummary # NoLoad
  /\ pg.error = NoLoad

\* The page shows an error and no activities.
ShowsError(pg) == pg.error # NoLoad /\ pg.allParsedActivities = NoLoad

\* Every load that is started settles.
EveryLoadSettles ==
  \A k \in 1..MaxLoads : (Len(loads) >= k) ~> (Len(loads) >= k /\ ~InFlight(k))

\* A load that settles leaves isLoading false.
SettledLoadNotLoading ==
  [][\A k \in 1..Len(loads) : Settles(k) => ~page'.isLoading]_vars

\* C27: provided the promises settle, every load that is started ends, and
\* ends with isLoading false and with either a batch shown (activities, date
\* range, summary, no error) or an error shown and no activities.
C27_LoadEndsWithBatchOrError ==
  /\ EveryLoadSettles
  /\ [][\A k \in 1..Len(loads) :
          Settles(k) =>
            /\ ~page'.isLoading
            /\ ShowsBatch(page') \/ ShowsError(page')]_vars


(***************************************************************************)
(* Properties of the parsers                                               *)
(***************************************************************************)
ResolvedBy(parser) ==
  pc = "parsed" /\ csv.parser = parser /\ parsed.status = "resolved"

ParserResolved == pc = "parsed" /\ parsed.status = "resolved"

\* C14: every activity of a batch returned by parseActivityCsv has
\* endTime >= startTime; a row whose end is before its start, by however
\* little, is dropped.
C14_EndNotBeforeStart ==
  ParserResolved =>
    \A i \in 1..Len(parsed.activities) :
      parsed.activities[i].endTime >= parsed.activities[i].startTime

\* The timestamp-based parser keeps no activity that ends a whole minute or
\* more before it starts.
TimestampEndWithinMinuteOfStart ==
  ResolvedBy("timestampCsv") =>
    \A i \in 1..Len(parsed.activities) :
      parsed.activities[i].endTime > parsed.activities[i].startTime - MsPerMinute

\* C15: for every activity kept by parseActivityCsv, durationMinutes is 0
\* only when startTime equals endTime and at least 1 whenever they differ.
C15_DurationAtLeastOne ==
  ParserResolved =>
    \A i \in 1..Len(parsed.activities) :
      LET act == parsed.activities[i]
      IN /\ act.durationMinutes = 0 => act.startTime = act.endTime
         /\ act.startTime # act.endTime => act.durationMinutes >= 1

\* The timestamp-based parser does as C15 says.
TimestampDurationAtLeastOne ==
  ResolvedBy("timestampCsv") =>
    \A i \in 1..Len(parsed.activities) :
      LET act == parsed.activities[i]
      IN /\ act.durationMinutes = 0 => act.startTime = act.endTime
         /\ act.startTime # act.endTime => act.durationMinutes >= 1

Ascending(acts) ==
  \A i, j \in 1..Len(acts) : i < j => acts[i].startTime <= acts[j].startTime

\* C16: the activities of every batch handed to the merge, window and
\* allocation code are in ascending startTime order, whether the batch comes
\* from parseActivityCsv or from getActivities.
C16_BatchAscending == pc = "loaded" => Ascending(activities)

\* The batches of both parsers are ascending.
CsvBatchAscending ==
  (pc = "loaded" /\ source # "api") => Ascending(activities)

ParsedAscending == ParserResolved => Ascending(parsed.activities)

\* How many records of the file have the span (start, end).
RecordsWithSpan(start, end) ==
  Cardinality({i \in 1..Len(csv.data) :
                 csv.data[i].start = start /\ csv.data[i].end = end})

ActivitiesWithSpan(start, end) ==
  Cardinality({i \in 1..Len(parsed.activities) :
                 /\ parsed.activities[i].startTime = start
                 /\ parsed.activities[i].endTime = end})

Instants2 == {csv.data[i].start : i \in 1..Len(csv.data)}
               \cup {csv.data[i].end : i \in 1..Len(csv.data)}

\* The mandatory columns of the file are there.
MandatoryColumns ==
  /\ \E i \in 1..Len(csv.fields) :
       \E n \in 1..Len(StartNames(csv.parser)) :
         ToLowerCase(csv.fields[i]) = ToLowerCase(StartNames(csv.parser)[n])
  /\ \E i \in 1..Len(csv.fields) :
       \E n \in 1..Len(EndNames(csv.parser)) :
         ToLowerCase(csv.fields[i]) = ToLowerCase(EndNames(csv.parser)[n])
  /\ \E i \in 1..Len(csv.fields) :
       ToLowerCase(csv.fields[i]) \in {"activity type", "type"}

UserColumn ==
  \E i \in 1..Len(csv.fields) : ToLowerCase(csv.fields[i]) = "logged in user"

\* A record with a start and an end that parse and an end not before the start.
GoodRecord(record) ==
  /\ record.start # Unparseable
  /\ record.end # Unparseable
  /\ record.end >= record.start

\* C17: in the timestamp-based parseActivityCsv a row whose start or end
\* cannot be parsed is left out without failing the batch, as long as one
\* row is kept: the kept activities are exactly the rows with a parseable
\* start and end and end not before start, and totalEventCount is the number
\* of data rows seen.
C17_UnparseableRowsLeftOut ==
  (pc = "parsed" /\ csv.parser = "timestampCsv" /\ MandatoryColumns /\ UserColumn
     /\ \E i \in 1..Len(csv.data) : GoodRecord(csv.data[i])) =>
    /\ parsed.status = "resolved"
    /\ parsed.totalEventCount = Len(csv.data)
    /\ \A start, end \in Instants2 :
         ActivitiesWithSpan(start, end)
           = (IF GoodRecord([start |-> start, end |-> end])
              THEN RecordsWithSpan(start, end) ELSE 0)

\* What the timestamp-based parser does keep: the rows with a parseable start
\* and end whose end is less than a minute before the start, or later.
TimestampKeepsWithinMinute ==
  (pc = "parsed" /\ csv.parser = "timestampCsv" /\ MandatoryColumns /\ UserColumn
     /\ \E i \in 1..Len(csv.data) : GoodRecord(csv.data[i])) =>
    /\ parsed.status = "resolved"
    /\ parsed.totalEventCount = Len(csv.data)
    /\ \A start, end \in Instants2 :
         ActivitiesWithSpan(start, end)
           = (IF start # Unparseable /\ end # Unparseable /\ end > start - MsPerMinute
              THEN RecordsWithSpan(start, end) ELSE 0)

\* C18: parseActivityCsv rejects, handing back no activities, when no row is
\* kept (every row skipped, or no data rows); it never resolves with an
\* empty activity list or without a date range.
C18_RejectsWhenNothingKept ==
  pc = "parsed" =>
    /\ parsed.status \in {"resolved", "rejected"}
    /\ parsed.status = "resolved" =>
         /\ parsed.activities # <<>>
         /\ parsed.startDate # Unparseable
         /\ parsed.endDate # Unparseable
    /\ parsed.status = "rejected" => parsed.activities = <<>>
    /\ (\A i \in 1..Len(csv.data) : ~Parseable(csv.data[i])) =>
         parsed.status = "rejected"

\* C18 witness: a file with data rows, every one of them skipped, and with
\* every column there, has been rejected.
C18_Witness ==
  /\ pc = "parsed"
  /\ MandatoryColumns /\ UserColumn
  /\ Len(csv.data) > 1
  /\ \A i \in 1..Len(csv.data) : ~GoodRecord(csv.data[i])
  /\ parsed.status = "rejected"
  /\ parsed.activities = <<>>

\* C19: parseActivityCsv rejects the batch when the start-time, end-time or
\* activity-type column cannot be resolved, and does not reject it because
\* another column, for example the user column, is absent.
C19_OnlyMandatoryColumns ==
  pc = "parsed" =>
    /\ ~MandatoryColumns => parsed.status = "rejected"
    /\ (/\ MandatoryColumns
        /\ \E i \in 1..Len(csv.data) :
             GoodRecord(csv.data[i]) /\ Cell(csv.data[i], parsed.typeHeader) # "")
         => parsed.status = "resolved"

\* The format-based parser does as C19 says.
NamedOnlyMandatoryColumns ==
  (pc = "parsed" /\ csv.parser = "namedCsv") =>
    /\ ~MandatoryColumns => parsed.status = "rejected"
    /\ (/\ MandatoryColumns
        /\ \E i \in 1..Len(csv.data) :
             GoodRecord(csv.data[i]) /\ Cell(csv.data[i], parsed.typeHeader) # "")
         => parsed.status = "resolved"

\* The file has a column of this name, case ignored.
HasColumn(lowerName) ==
  \E i \in 1..Len(csv.fields) : ToLowerCase(csv.fields[i]) = lowerName

\* C20: when the header row contains more than one accepted alias of a
\* field, the column used is the one matching the highest-priority alias,
\* case ignored, whatever the order of the columns: for the type field,
\* "Activity Type" before "Type".
C20_HighestPriorityAlias ==
  (pc = "parsed" /\ csv.data # <<>>) =>
    IF HasColumn("activity type")
    THEN ToLowerCase(parsed.typeHeader) = "activity type"
    ELSE IF HasColumn("type") THEN ToLowerCase(parsed.typeHeader) = "type"
    ELSE parsed.typeHeader = Null

\* The timestamp-based parser does as C20 says.
TimestampHighestPriorityAlias ==
  (pc = "parsed" /\ csv.parser = "timestampCsv" /\ csv.data # <<>>) =>
    IF HasColumn("activity type")
    THEN ToLowerCase(parsed.typeHeader) = "activity type"
    ELSE IF HasColumn("type") THEN ToLowerCase(parsed.typeHeader) = "type"
    ELSE parsed.typeHeader = Null

\* C24: every interval that mergeIntervals returns is a copy: neither its
\* start nor its end is a Date object of an interval of the input.
C24_ReturnedIntervalsAreCopies ==
  Merged =>
    \A k \in 1..Len(mergedObjects) :
      mergedObjects[k].start.owner # "input" /\ mergedObjects[k].end.owner # "input"

\* The start of every returned interval is a copy, and the objects that a
\* returned interval holds carry its start and its end.
ReturnedStartsAreCopies ==
  Merged =>
    /\ Len(mergedObjects) = Len(merged)
    /\ \A k \in 1..Len(mergedObjects) :
         /\ mergedObjects[k].start.owner = "clone"
         /\ intervals[mergedObjects[k].start.index].start = merged[k].start
         /\ intervals[mergedObjects[k].end.index].end = merged[k].end

\* C25: a call to mergeIntervals leaves the caller's array unchanged: the
\* same intervals, with the same endpoints, in the same order.
C25_InputUnchanged == Merged => intervals = original

\* The caller's array holds the same intervals after the call, each as
\* often as before, and is unchanged when it was in order of start.
InputKeepsItsIntervals ==
  Merged =>
    /\ Len(intervals) = Len(original)
    /\ \A iv \in ValidIntervals :
         Cardinality({i \in 1..Len(intervals) : intervals[i] = iv})
           = Cardinality({i \in 1..Len(original) : original[i] = iv})
    /\ (\A i \in 1..Len(original) - 1 : original[i].start <= original[i + 1].start)
         => intervals = original

(***************************************************************************)
(* Properties of the cell parsers                                          *)
(***************************************************************************)
\* v is n / d rounded to the nearest integer (either neighbour at a half).
Nearest(v, n, d) == 2 * Abs(d * v - n) <= d

\* The text is one or more digits and nothing else.
IsBareInteger(str) == str # <<>> /\ \A i \in 1..Len(str) : IsDigit(str[i])

\* A text of components gives its minutes, rounded to the nearest minute,
\* and "1h 2m 30s" gives 63.
DurationComponentsRounded ==
  pc = "minutes" =>
    /\ \A h \in ComponentHours, m \in ComponentMinutes, s \in ComponentSeconds,
          sep \in Separators :
         (cellText[1] = DurationText(h, m, s, sep) /\ cellText[1] # <<>>) =>
           Nearest(cellValue,
                   SecondsOf(h, 3600) + SecondsOf(m, 60) + SecondsOf(s, 1),
                   SecondsPerMinute)
    /\ cellText[1] = DurationText(1, 2, 30, <<" ">>) => cellValue = 63

\* A bare integer is read as a number of seconds.
DurationBareIntegerAsSeconds ==
  pc = "minutes" =>
    \A n \in BareSeconds :
      cellText[1] = Digits(n) => Nearest(cellValue, n, SecondsPerMinute)

\* A text of neither form gives 0.
DurationOtherwiseZero ==
  (pc = "minutes" /\ cellText[1] \notin ComponentTexts /\ ~IsBareInteger(cellText[1]))
    => cellValue = 0

\* C21: parseDurationToMinutes returns the minutes, rounded to the nearest
\* minute, of a text made of an hours, a minutes and a seconds component
\* (any subset of them; "1h 2m 30s" gives 63), reads a bare integer as a
\* number of seconds, and returns 0 for a text of neither form.
C21_DurationParsed ==
  /\ DurationComponentsRounded
  /\ DurationBareIntegerAsSeconds
  /\ DurationOtherwiseZero

\* The Date a number of a timestamp cell stands for: epoch milliseconds when
\* it is above 10^11, epoch seconds otherwise.
DateOfNumber(n) ==
  IF n[1] > 100000000 \/ (n[1] = 100000000 /\ n[2] > 0)
  THEN NewDate(0, n[1], n[2])
  ELSE NewDate(n[1], n[2], 0)

\* The Date that the row loop made of the cell: the start or the end Date.
CellDate(i) == IF i = 1 THEN cellValue.startTime ELSE cellValue.endTime

\* The cell holds no digit, or a character that is neither a digit nor
\* white space.
NonNumeric(str) ==
  \/ \A i \in 1..Len(str) : ~IsDigit(str[i])
  \/ \E i \in 1..Len(str) : ~IsDigit(str[i]) /\ ~IsSpace(str[i])

\* A cell that holds a number gives the Date of the number.
TimestampNumberRead ==
  pc = "row" =>
    \A i \in 1..2 : \A n \in TimestampNumbers :
      cellText[i] = NumberText(n[1], n[2]) => CellDate(i) = DateOfNumber(n)

\* A cell that holds no number gives null, and the row is left out.
TimestampNonNumericNull ==
  pc = "row" =>
    \A i \in 1..2 :
      NonNumeric(cellText[i]) => (CellDate(i) = NullDate /\ ~cellValue.kept)

\* The row with start 1700000000 and end 1700000900 is kept with 15 minutes.
TimestampQuarterHour ==
  (pc = "row" /\ cellText = <<NumberText(1700000, 0), NumberText(1700000, 900)>>)
    => (cellValue.kept /\ cellValue.durationMinutes = 15)

\* C22: parseTimestampToDate reads a numeric timestamp above 10^11 as epoch
\* milliseconds and any other numeric timestamp as epoch seconds, and returns
\* null for a non-numeric value; the row with start 1700000000 and end
\* 1700000900 becomes an activity of 15 minutes.
C22_TimestampParsed ==
  /\ TimestampNumberRead
  /\ TimestampNonNumericNull
  /\ TimestampQuarterHour

(***************************************************************************)
(* Properties of the selected date                                         *)
(***************************************************************************)
InRange(date) == fileDateRange.start <= date /\ date <= fileDateRange.end

\* C28: once a batch is loaded, the selected date is inside the date range
\* of the batch, right after the load and after any previous-day and
\* next-day steps; a step that would leave the range changes nothing.
C28_SelectedDateInRange ==
  /\ [](pc = "shown" => InRange(selectedDate))
  /\ [][(pc = "shown" /\ pc' = "shown") =>
          (InRange(selectedDate') \/ selectedDate' = selectedDate)]_vars

\* The selected date is inside the date range of a batch of the
\* format-based parser.
NamedSelectedDateInRange ==
  (pc = "shown" /\ csv.parser = "namedCsv") => InRange(selectedDate)

\* A step does not take the selected date out of the range, and a step that
\* would changes nothing.
StepsKeepInRange ==
  [][(pc = "shown" /\ pc' = "shown") =>
       /\ InRange(selectedDate) => InRange(selectedDate')
       /\ InRange(selectedDate') \/ selectedDate' = selectedDate]_vars

====
